---------------------------- MODULE Spec2Model ----------------------------
(***************************************************************************)
(* A model of simple-markdown (src/src/index.jsx): the rule-table parser   *)
(* factory parserFor with its dispatcher loop, the output factory          *)
(* outputFor, the sanitizers, the reference backpatching of the default    *)
(* rules and the default grammar on strings.                               *)
(*                                                                         *)
(* Strings are sequences of one-character strings.  Each component has its *)
(* own variables and its own specification; a specification keeps the      *)
(* variables of the other components at their idle values.                 *)
(***************************************************************************)
EXTENDS Integers, Sequences, FiniteSets, TLC

VARIABLES
    \* ---- parserFor / nestedParse on an abstract rule table
    rules,        \* the rule table: rule name -> rule record
    keys,         \* Object.keys(rules): the key order of the table
    ruleList,     \* the filtered, sorted rule names
    pc,           \* "new" | "ready" | "loop" | "done" | "error"
    source,       \* the remaining source (its length; match is an oracle)
    result,       \* the nodes accumulated by nestedParse
    prevCapture,  \* state.prevCapture
    error,        \* the error thrown, "" when none
    iter,         \* what the last loop iteration probed and chose
    \* ---- the sanitizers and the html of a link
    call,         \* the function called and its argument
    returned,     \* what the call returned, Pending before it returns
    \* ---- outputFor and the renderer it returns
    outputRules,     \* the rule table handed to outputFor
    property,        \* the output property asked for, "" when it is missing
    arrayRuleOutput, \* the Array joiner the renderer holds
    outputPc,        \* "new" | "built" | "error"
    outputError,     \* the error outputFor threw, "" when none
    ast,             \* the tree last handed to the renderer
    rendered,        \* what the renderer returned for it
    \* ---- reference links, reference images and definitions
    _defs,        \* state._defs: key -> target and title
    _refs,        \* state._refs: key -> the ref nodes that name the key
    refsMade,     \* state._refs is an object
    nodes,        \* the ref nodes created, which the lists of _refs point to
    events,       \* the references and definitions parsed so far, in order
    refsError,    \* the error a parse threw, "" when none
    \* ---- the parse of a document with the default rules
    input,        \* the source and the state handed to the parse
    state,        \* the parse state: inline, _list, prevCapture
    stack,        \* the running nestedParse calls, the innermost last
    tree,         \* the node list the parse returned
    chosen,       \* the rule and the capture the iteration in hand chose
    thrown,       \* the error the parse threw, "" when none
    \* ---- functions applied to bounded arguments
    applied,      \* the function applied and its arguments
    outcome,      \* what it returned, Pending before it returns
    \* ---- the scope fields of the state across nested parses
    scope,        \* state.inline, state._list and state.inTable
    nesting,      \* the nested parsers that are running, the innermost last
    finished,     \* the nested parser that returned last, and the scope it was called in
    \* ---- state.key across the Array rule of the tree output
    vueAst,       \* the array handed to the output
    stateKey,     \* state.key
    rendering,    \* the running calls of Array.vue, the innermost last
    emitted       \* the last step: a child was output, or a call returned

varsParser == <<rules, keys, ruleList, pc, source, result, prevCapture, error, iter>>

varsSanitize == <<call, returned>>

varsOutput ==
    <<outputRules, property, arrayRuleOutput, outputPc, outputError, ast, rendered>>

varsRefs == <<_defs, _refs, refsMade, nodes, events, refsError>>

varsDefault == <<input, state, stack, tree, chosen, thrown>>

varsFunctions == <<applied, outcome>>

varsScope == <<scope, nesting, finished>>

varsKeys == <<vueAst, stateKey, rendering, emitted>>

vars ==
    <<varsParser, varsSanitize, varsOutput, varsRefs, varsDefault, varsFunctions,
      varsScope, varsKeys>>

\* the variables of the other components, which a component leaves alone
othersOfParser == <<varsSanitize, varsOutput, varsRefs, varsDefault, varsFunctions,
    varsScope, varsKeys>>

othersOfSanitize == <<varsParser, varsOutput, varsRefs, varsDefault, varsFunctions,
    varsScope, varsKeys>>

othersOfOutput == <<varsParser, varsSanitize, varsRefs, varsDefault, varsFunctions,
    varsScope, varsKeys>>

othersOfRefs == <<varsParser, varsSanitize, varsOutput, varsDefault, varsFunctions,
    varsScope, varsKeys>>

othersOfDefault == <<varsParser, varsSanitize, varsOutput, varsRefs, varsFunctions,
    varsScope, varsKeys>>

othersOfFunctions ==
    <<varsParser, varsSanitize, varsOutput, varsRefs, varsDefault, varsScope, varsKeys>>

othersOfScope ==
    <<varsParser, varsSanitize, varsOutput, varsRefs, varsDefault, varsFunctions,
      varsKeys>>

othersOfKeys ==
    <<varsParser, varsSanitize, varsOutput, varsRefs, varsDefault, varsFunctions,
      varsScope>>

-----------------------------------------------------------------------------
(* Bounds *)

\* longest source handed to the parser of an abstract rule table
MaxSource == 1
\* longest capture[0] the match of an abstract rule returns
MaxCapture == 2
\* largest order and largest quality of an abstract rule
MaxOrder == 1
MaxQuality == 1
\* most nodes a parse of an abstract rule table is followed for
MaxNodes == 2
\* longest text handed to sanitizeText
MaxText == 2
\* most pieces a url is written with
MaxPieces == 3
\* most nodes of an array handed to a renderer
MaxAst == 2
\* most references and definitions of a document
MaxEvents == 3
\* most lines of a document
MaxLines == 4
\* most nodes of an array handed to the Array rule
MaxArray == 3
\* longest string handed to preprocess and longest url before it is escaped
MaxString == 3
\* largest value of a client property of a state
MaxValue == 2
\* longest source handed to defaultImplicitParse
MaxImplicit == 4
\* most nested parsers running at a time
MaxDepth == 3
\* longest row handed to parseTableRow
MaxRow == 5

-----------------------------------------------------------------------------
(* Helpers *)

Null == [null |-> TRUE]

Range(s) == {s[i] : i \in 1 .. Len(s)}

Perms(S) == {p \in [1 .. Cardinality(S) -> S] : Range(p) = S}

Max(a, b) == IF a >= b THEN a ELSE b

Min(a, b) == IF a <= b THEN a ELSE b

IndexIn(s, x) == CHOOSE i \in 1 .. Len(s) : s[i] = x

\* Rule names in ascending unicode lexicographic order (typeA < typeB).
NameOrder ==
    <<"a", "b", "br", "c", "codeBlock", "del", "em", "link", "list", "newline",
      "paragraph", "strong", "text", "u">>

NameRank(n) == CHOOSE i \in 1 .. Len(NameOrder) : NameOrder[i] = n

-----------------------------------------------------------------------------
(* parserFor: filter and sort *)

\* The filter callback: entries whose rule or match is null are dropped; an
\* invalid order only warns.
KeepsRule(type) == rules[type].match

FilterKeys(ks) == SelectSeq(ks, KeepsRule)

\* orderA !== orderB (NaN is unequal to everything, itself included)
OrderDiffers(ruleA, ruleB) ==
    ruleA.orderNaN \/ ruleB.orderNaN \/ ruleA.order # ruleB.order

Sign(n) == IF n < 0 THEN -1 ELSE IF n > 0 THEN 1 ELSE 0

\* The comparator handed to ruleList.sort, as sort reads it: the sign of the
\* returned number, a returned NaN counting as +0.
CompareRules(typeA, typeB) ==
    LET ruleA == rules[typeA]
        ruleB == rules[typeB]
        secondaryOrderA == IF ruleA.quality # "none" THEN 0 ELSE 1
        secondaryOrderB == IF ruleB.quality # "none" THEN 0 ELSE 1
    IN  IF OrderDiffers(ruleA, ruleB)
        THEN IF ruleA.orderNaN \/ ruleB.orderNaN
             THEN 0
             ELSE Sign(ruleA.order - ruleB.order)
        ELSE IF secondaryOrderA # secondaryOrderB
             THEN Sign(secondaryOrderA - secondaryOrderB)
             ELSE IF NameRank(typeA) < NameRank(typeB) THEN -1
             ELSE IF NameRank(typeA) > NameRank(typeB) THEN 1
             ELSE 0

\* Array.prototype.sort's precondition: the comparator is a consistent
\* comparison function for the elements.
ConsistentComparator(S) ==
    /\ \A x, y \in S : CompareRules(x, y) = - CompareRules(y, x)
    /\ \A x, y, z \in S :
          /\ CompareRules(x, y) = 0 /\ CompareRules(y, z) = 0
                => CompareRules(x, z) = 0
          /\ CompareRules(x, y) < 0 /\ CompareRules(y, z) < 0
                => CompareRules(x, z) < 0

\* p is ks sorted by the comparator, elements that compare equal keeping
\* their order in ks (the sort is stable).
StableSorted(p, ks) ==
    \A i, j \in 1 .. Len(p) :
        i < j =>
            /\ CompareRules(p[i], p[j]) <= 0
            /\ CompareRules(p[i], p[j]) = 0 => IndexIn(ks, p[i]) < IndexIn(ks, p[j])

\* The lists ruleList.sort may leave: the stable sort when the comparator is
\* consistent, any order of the elements when it is not (the order is then
\* implementation-defined).
SortResults(ks) ==
    LET S == Range(ks)
    IN  {p \in Perms(S) : ConsistentComparator(S) => StableSorted(p, ks)}

ParserFor ==
    /\ pc = "new"
    /\ \E sorted \in SortResults(FilterKeys(keys)) : ruleList' = sorted
    /\ pc' = "ready"
    /\ UNCHANGED <<rules, keys, source, result, prevCapture, error, iter>>
    /\ UNCHANGED othersOfParser

-----------------------------------------------------------------------------
(* nestedParse: the dispatcher loop *)

\* The oracle of one iteration: for each rule of the list, whether its match
\* returns a capture on the current source, the capture's length and what its
\* quality function returns for it.
NoCapture == [hit |-> FALSE, len |-> 0, q |-> 0]

CapturesOf(type) ==
    {NoCapture} \cup
    [hit : {TRUE},
     len : IF rules[type].quality \in {"em", "strong", "u"}
           THEN 1 .. MaxCapture ELSE {1},
     q   : IF rules[type].quality = "any" THEN 0 .. MaxQuality ELSE {0}]

Oracles(list) ==
    {caps \in [Range(list) -> UNION {CapturesOf(t) : t \in Range(list)}] :
        \A t \in Range(list) : caps[t] \in CapturesOf(t)}

\* (mutant) the quality functions of em, strong and u forget the length
QualityWithoutLength(type, capture) ==
    CASE rules[type].quality = "none"   -> 0
      [] rules[type].quality = "em"     -> 2
      [] rules[type].quality = "strong" -> 1
      [] rules[type].quality = "u"      -> 0
      [] OTHER                          -> 10 * capture.q

\* currRule.quality ? currRule.quality(currCapture, ...) : 0.  The qualities of
\* em, strong and u are capture[0].length + 0.2, + 0.1 and + 0; every quality
\* is held in tenths.
QualityOf(type, capture) ==
    CASE rules[type].quality = "none"   -> 0
      [] rules[type].quality = "em"     -> 10 * capture.len + 2
      [] rules[type].quality = "strong" -> 10 * capture.len + 1
      [] rules[type].quality = "u"      -> 10 * capture.len
      [] OTHER                          -> 10 * capture.q

\* (mutant) !(currQuality < quality): an equal quality replaces the best
ReplacesBestOnTie(best, currQuality) == ~ (best.found /\ currQuality < best.quality)

\* !(currQuality <= quality): quality is NaN until a match was stored.
ReplacesBest(best, currQuality) == ~ (best.found /\ currQuality <= best.quality)

\* currRule.order === currOrder && currRule.quality
SameOrderWithQuality(nextType, currType) ==
    /\ ~ OrderDiffers(rules[nextType], rules[currType])
    /\ rules[nextType].quality # "none"

NoBest == [found |-> FALSE, ruleType |-> "", quality |-> 0]

\* The do-while of nestedParse from rule i on: the best match and the number
\* of rules probed.
RECURSIVE Probe(_, _, _, _)
Probe(list, caps, i, best) ==
    LET currRuleType == list[i]
        currCapture == caps[currRuleType]
        currQuality == QualityOf(currRuleType, currCapture)
        stored == IF currCapture.hit /\ ReplacesBest(best, currQuality)
                  THEN [found |-> TRUE, ruleType |-> currRuleType,
                        quality |-> currQuality]
                  ELSE best
    IN  IF /\ i + 1 <= Len(list)
           /\ (~ stored.found \/ SameOrderWithQuality(list[i + 1], currRuleType))
        THEN Probe(list, caps, i + 1, stored)
        ELSE [best |-> stored, probed |-> i]

\* What the rule's parse returns: a node that names its type, a node that
\* omits it, or an array of two nodes of which the second omits it.  A type
\* of "" stands for an omitted type.
ParsedBy(type) ==
    CASE rules[type].parse = "typed"   -> [array |-> FALSE, types |-> <<"x">>]
      [] rules[type].parse = "untyped" -> [array |-> FALSE, types |-> <<"">>]
      [] OTHER                         -> [array |-> TRUE, types |-> <<"x", "">>]

NodeOf(type) == [type |-> type]

\* if (parsed.type == null) parsed.type = ruleType
FillType(type, ruleType) == IF type = "" THEN ruleType ELSE type

\* Array.prototype.push.apply(result, parsed) / result.push(parsed)
PushParsed(res, parsed, ruleType) ==
    IF parsed.array
    THEN res \o [i \in 1 .. Len(parsed.types) |-> NodeOf(parsed.types[i])]
    ELSE Append(res, NodeOf(FillType(parsed.types[1], ruleType)))

\* outerParse: the state is populated, "\n\n" is appended unless the state is
\* inline or disables it, prevCapture is reset and nestedParse starts with an
\* empty result.
OuterParse ==
    /\ pc \in {"ready", "done"}
    /\ \E len \in 0 .. MaxSource, inline \in BOOLEAN :
          source' = IF inline THEN len ELSE len + 2
    /\ prevCapture' = Null
    /\ result' = << >>
    /\ iter' = Null
    /\ pc' = "loop"
    /\ UNCHANGED <<rules, keys, ruleList, error>>
    /\ UNCHANGED othersOfParser

\* (mutant) the capture's index is not looked at
AnyIndex(index) == FALSE

\* if (capture.index): the index is present and not zero
StartsPastZero(index) == index # 0

\* The first half of an iteration of while (source): the do-while chooses the
\* rule, and the two checks that follow it throw or let the parse go on.
Dispatch ==
    /\ pc = "loop"
    /\ source > 0
    /\ Len(result) < MaxNodes
    /\ IF ruleList = << >>
       THEN \* rules[ruleList[0]] is undefined: reading its order throws
            /\ pc' = "error"
            /\ error' = "TypeError"
            /\ iter' = Null
       ELSE \E caps \in Oracles(ruleList) :
            LET sel == Probe(ruleList, caps, 1, NoBest)
                ruleType == sel.best.ruleType
            IN  \E index \in IF sel.best.found /\ ~ rules[ruleType].anchored
                             THEN {0, 1} ELSE {0} :
                /\ iter' = [null |-> FALSE, caps |-> caps, probed |-> sel.probed,
                            found |-> sel.best.found, ruleType |-> ruleType,
                            index |-> index]
                /\ IF ~ sel.best.found
                   THEN pc' = "error" /\ error' = "no matching rule"
                   ELSE IF StartsPastZero(index)
                   THEN pc' = "error" /\ error' = "unanchored match"
                   ELSE pc' = "parse" /\ UNCHANGED error
    /\ UNCHANGED <<rules, keys, ruleList, source, result, prevCapture>>
    /\ UNCHANGED othersOfParser

\* The second half: rule.parse is called, its nodes are pushed, prevCapture is
\* set and the source advances by capture[0].length.
Consume ==
    /\ pc = "parse"
    /\ LET ruleType == iter.ruleType
           capture == iter.caps[ruleType]
       IN  \E len \in IF rules[ruleType].quality \in {"em", "strong", "u"}
                      THEN {capture.len} ELSE 0 .. MaxCapture :
           /\ result' = PushParsed(result, ParsedBy(ruleType), ruleType)
           /\ prevCapture' = [null |-> FALSE, len |-> len]
           /\ source' = Max(0, source - len)
    /\ iter' = Null
    /\ pc' = "loop"
    /\ UNCHANGED <<rules, keys, ruleList, error>>
    /\ UNCHANGED othersOfParser

\* source is empty: nestedParse returns result.
Return ==
    /\ pc = "loop"
    /\ source = 0
    /\ pc' = "done"
    /\ UNCHANGED <<rules, keys, ruleList, source, result, prevCapture, error, iter>>
    /\ UNCHANGED othersOfParser

-----------------------------------------------------------------------------
(* Rule tables *)

TableNames == {"a", "b", "c"}

\* Rules as the rule contract asks for them: a match, a numeric order, a parse
\* that returns one node without a type.
ValidRules ==
    [match : {TRUE}, order : 0 .. MaxOrder, orderNaN : {FALSE},
     quality : {"none", "any"}, parse : {"untyped"}, anchored : {TRUE}]

\* Tables of valid rules, their keys in descending name order.
DispatchTables ==
    {[rules |-> r, keys |-> <<"c", "b", "a">>] : r \in [TableNames -> ValidRules]}

\* Rules as parserFor accepts them: the match may be missing and the order may
\* be NaN (parserFor warns of an invalid order and keeps the rule).
AnyRules ==
    [match : BOOLEAN, order : 0 .. MaxOrder, orderNaN : {FALSE},
     quality : {"none", "any"}, parse : {"untyped"}, anchored : {TRUE}]
    \cup
    [match : BOOLEAN, order : {0}, orderNaN : {TRUE},
     quality : {"none", "any"}, parse : {"untyped"}, anchored : {TRUE}]

\* Every table of such rules, in every key order.
SortTables ==
    UNION {{[rules |-> r, keys |-> k] : r \in [names -> AnyRules], k \in Perms(names)} :
              names \in SUBSET TableNames \ {{}}}

\* Rules of one order whose parse and match differ: a parse may name the type,
\* omit it or return an array, a match may be missing or unanchored.
NodeRules ==
    [match : BOOLEAN, order : {0}, orderNaN : {FALSE}, quality : {"none"},
     parse : {"typed", "untyped", "array"}, anchored : BOOLEAN]

NodeTables ==
    {[rules |-> r, keys |-> <<"a", "b">>] : r \in [{"a", "b"} -> NodeRules]}

\* The default rules link, em, strong, u and text: their orders (currOrder++),
\* their quality functions, in the key order of defaultRules.
EmphasisRule(order, quality) ==
    [match |-> TRUE, order |-> order, orderNaN |-> FALSE, quality |-> quality,
     parse |-> "untyped", anchored |-> TRUE]

EmphasisTables ==
    {[rules |-> [t \in {"link", "em", "strong", "u", "text"} |->
                    CASE t = "link"   -> EmphasisRule(17, "none")
                      [] t = "em"     -> EmphasisRule(21, "em")
                      [] t = "strong" -> EmphasisRule(21, "strong")
                      [] t = "u"      -> EmphasisRule(21, "u")
                      [] OTHER        -> EmphasisRule(25, "none")],
      keys |-> <<"link", "em", "strong", "u", "text">>]}

InitParser(Tables) ==
    /\ \E table \in Tables :
          /\ rules = table.rules
          /\ keys = table.keys
    /\ ruleList = << >>
    /\ pc = "new"
    /\ source = 0
    /\ result = << >>
    /\ prevCapture = Null
    /\ error = ""
    /\ iter = Null

\* no parser is made
IdleParser ==
    /\ rules = << >>
    /\ keys = << >>
    /\ ruleList = << >>
    /\ pc = "idle"
    /\ source = 0
    /\ result = << >>
    /\ prevCapture = Null
    /\ error = ""
    /\ iter = Null

-----------------------------------------------------------------------------
(* Strings *)

UpperCase ==
    <<"A", "B", "C", "D", "E", "F", "G", "H", "I", "J", "K", "L", "M",
      "N", "O", "P", "Q", "R", "S", "T", "U", "V", "W", "X", "Y", "Z">>

LowerCase ==
    <<"a", "b", "c", "d", "e", "f", "g", "h", "i", "j", "k", "l", "m",
      "n", "o", "p", "q", "r", "s", "t", "u", "v", "w", "x", "y", "z">>

Digits == <<"0", "1", "2", "3", "4", "5", "6", "7", "8", "9">>

\* s.indexOf(prefix) === 0
StartsWith(s, prefix) ==
    /\ Len(prefix) <= Len(s)
    /\ SubSeq(s, 1, Len(prefix)) = prefix

\* s.indexOf(part) !== -1
Contains(s, part) ==
    \E i \in 0 .. Len(s) - Len(part) : SubSeq(s, i + 1, i + Len(part)) = part

\* String.prototype.toLowerCase, one character
LowerChar(c) ==
    IF c \in Range(UpperCase) THEN LowerCase[IndexIn(UpperCase, c)] ELSE c

ToLowerCase(s) == [i \in 1 .. Len(s) |-> LowerChar(s[i])]

\* the concatenation of a sequence of strings
RECURSIVE Join(_)
Join(parts) == IF parts = << >> THEN << >> ELSE Head(parts) \o Join(Tail(parts))

\* the sequences of at most n elements of S
RECURSIVE SeqsUpTo(_, _)
SeqsUpTo(S, n) ==
    IF n = 0 THEN {<< >>}
    ELSE LET shorter == SeqsUpTo(S, n - 1)
         IN  shorter \cup {Append(s, x) : s \in shorter, x \in S}

\* undefined, as against null
Undefined == [undefined |-> TRUE]

\* a string value, as against null and undefined
Str(s) == [null |-> FALSE, str |-> s]

\* value == null
IsNullish(value) == value = Null \/ value = Undefined

-----------------------------------------------------------------------------
(* sanitizeText *)

\* the character U+0060, the grave accent
Backtick == "U+0060"

\* SANITIZE_TEXT_R, the characters the replace visits
SANITIZE_TEXT_R == {"<", ">", "&", "\"", "'"}

\* SANITIZE_TEXT_CODES, the replacement of each character of the table
SANITIZE_TEXT_CODES(chr) ==
    CASE chr = "<"  -> <<"&", "l", "t", ";">>
      [] chr = ">"  -> <<"&", "g", "t", ";">>
      [] chr = "&"  -> <<"&", "a", "m", "p", ";">>
      [] chr = "\"" -> <<"&", "q", "u", "o", "t", ";">>
      [] chr = "'"  -> <<"&", "#", "x", "2", "7", ";">>
      [] chr = "/"  -> <<"&", "#", "x", "2", "F", ";">>
      [] chr = Backtick -> <<"&", "#", "9", "6", ";">>

\* String(text).replace(SANITIZE_TEXT_R, chr => SANITIZE_TEXT_CODES[chr])
sanitizeText(text) ==
    Join([i \in 1 .. Len(text) |->
            IF text[i] \in SANITIZE_TEXT_R
            THEN SANITIZE_TEXT_CODES(text[i])
            ELSE <<text[i]>>])

-----------------------------------------------------------------------------
(* sanitizeUrl *)

HexDigits == Range(Digits) \cup {"A", "B", "C", "D", "E", "F"}
                           \cup {"a", "b", "c", "d", "e", "f"}

HexValue(c) ==
    IF c \in Range(Digits) THEN IndexIn(Digits, c) - 1
    ELSE IF c \in Range(UpperCase) THEN IndexIn(UpperCase, c) + 9
    ELSE IndexIn(LowerCase, c) + 9

\* s holds "%" and two hexadecimal digits at i
HasByteAt(s, i) ==
    /\ i + 2 <= Len(s)
    /\ s[i] = "%"
    /\ s[i + 1] \in HexDigits
    /\ s[i + 2] \in HexDigits

ByteAt(s, i) == 16 * HexValue(s[i + 1]) + HexValue(s[i + 2])

\* The characters of the escaped bytes below 0x80 that the urls hold.
CharOfByte(b) ==
    CASE b = 32  -> " "
      [] b = 58  -> ":"
      [] b = 65  -> "A"
      [] b = 106 -> "j"

\* A character above U+007F: whichever it is, it is none of [A-Za-z0-9/:].
NonAscii == "U+0080.."

\* The number of continuation bytes a UTF-8 lead byte asks for, 0 for a byte
\* that cannot lead.
Continuations(b) ==
    IF b \in 194 .. 223 THEN 1
    ELSE IF b \in 224 .. 239 THEN 2
    ELSE IF b \in 240 .. 244 THEN 3
    ELSE 0

\* The range of the first continuation byte after lead byte b.
SecondByteRange(b) ==
    CASE b = 224 -> 160 .. 191
      [] b = 237 -> 128 .. 159
      [] b = 240 -> 144 .. 191
      [] b = 244 -> 128 .. 143
      [] OTHER   -> 128 .. 191

\* The escaped bytes from i on are one well-formed UTF-8 sequence of lead b.
WellFormedAt(s, i, b) ==
    /\ Continuations(b) > 0
    /\ \A k \in 1 .. Continuations(b) :
          /\ HasByteAt(s, i + 3 * k)
          /\ ByteAt(s, i + 3 * k) \in
                (IF k = 1 THEN SecondByteRange(b) ELSE 128 .. 191)

\* decodeURIComponent from position i on: ok is FALSE where it throws URIError
RECURSIVE DecodeFrom(_, _)
DecodeFrom(s, i) ==
    IF i > Len(s) THEN [ok |-> TRUE, str |-> << >>]
    ELSE IF s[i] # "%"
         THEN LET rest == DecodeFrom(s, i + 1)
              IN  [ok |-> rest.ok, str |-> <<s[i]>> \o rest.str]
    ELSE IF ~ HasByteAt(s, i) THEN [ok |-> FALSE, str |-> << >>]
    ELSE LET b == ByteAt(s, i)
         IN  IF b < 128
             THEN LET rest == DecodeFrom(s, i + 3)
                  IN  [ok |-> rest.ok, str |-> <<CharOfByte(b)>> \o rest.str]
             ELSE IF ~ WellFormedAt(s, i, b) THEN [ok |-> FALSE, str |-> << >>]
             ELSE LET rest == DecodeFrom(s, i + 3 * (Continuations(b) + 1))
                  IN  [ok |-> rest.ok, str |-> <<NonAscii>> \o rest.str]

decodeURIComponent(s) == DecodeFrom(s, 1)

\* [A-Za-z0-9/:]
IsProtocolChar(c) ==
    c \in Range(UpperCase) \cup Range(LowerCase) \cup Range(Digits) \cup {"/", ":"}

\* .replace(/[^A-Za-z0-9/:]/g, '')
StripToProtocolChars(s) == SelectSeq(s, IsProtocolChar)

JavascriptScheme == <<"j", "a", "v", "a", "s", "c", "r", "i", "p", "t", ":">>

VbscriptScheme == <<"v", "b", "s", "c", "r", "i", "p", "t", ":">>

DataScheme == <<"d", "a", "t", "a", ":">>

\* (mutant) the protocol is read off the url as it is written, undecoded
ProtWithoutDecoding(s) ==
    [ok |-> TRUE, str |-> ToLowerCase(StripToProtocolChars(s))]

\* var prot = decodeURIComponent(url).replace(...).toLowerCase()
Prot(s) ==
    LET decoded == decodeURIComponent(s)
    IN  [ok |-> decoded.ok, str |-> ToLowerCase(StripToProtocolChars(decoded.str))]

sanitizeUrl(url) ==
    IF IsNullish(url) THEN Null
    ELSE LET prot == Prot(url.str)
         IN  IF ~ prot.ok THEN Null
             ELSE IF \/ StartsWith(prot.str, JavascriptScheme)
                     \/ StartsWith(prot.str, VbscriptScheme)
                     \/ StartsWith(prot.str, DataScheme)
                  THEN Null
                  ELSE url

-----------------------------------------------------------------------------
(* htmlTag and the html of a link *)

\* (mutant) an attribute is written whatever its value
KeepsEveryAttribute(attribute) == TRUE

\* && attribute: null, undefined and '' are falsy
KeepsAttribute(attribute) == ~ IsNullish(attribute) /\ attribute.str # << >>

\* what String(attribute) reads of a value
StringOf(attribute) ==
    IF attribute = Null THEN <<"n", "u", "l", "l">>
    ELSE IF attribute = Undefined
         THEN <<"u", "n", "d", "e", "f", "i", "n", "e", "d">>
         ELSE attribute.str

\* ' ' + sanitizeText(attr) + '="' + sanitizeText(attribute) + '"'
AttributeString(attr, attribute) ==
    <<" ">> \o sanitizeText(attr) \o <<"=", "\"">>
            \o sanitizeText(StringOf(attribute)) \o <<"\"">>

\* attributes is the sequence of the object's own properties, in the order
\* for-in visits them
htmlTag(tagName, content, attributes, isClosed) ==
    LET attributeString ==
            Join([i \in 1 .. Len(attributes) |->
                    IF KeepsAttribute(attributes[i].value)
                    THEN AttributeString(attributes[i].attr, attributes[i].value)
                    ELSE << >>])
        unclosedTag == <<"<">> \o tagName \o attributeString \o <<">">>
    IN  IF isClosed
        THEN unclosedTag \o content \o <<"<", "/">> \o tagName \o <<">">>
        ELSE unclosedTag

\* defaultRules.text.html
TextHtml(node) == sanitizeText(node.content)

\* defaultRules.link.html, node.content being one text node
LinkHtml(node) ==
    LET attributes ==
            <<[attr |-> <<"h", "r", "e", "f">>, value |-> sanitizeUrl(node.target)],
              [attr |-> <<"t", "i", "t", "l", "e">>, value |-> node.title]>>
    IN  htmlTag(<<"a">>, TextHtml(node.content), attributes, TRUE)

-----------------------------------------------------------------------------
(* The calls of the sanitizers *)

\* the characters of the texts: the seven of the table and a letter
TextChars == {"<", ">", "&", "\"", "'", "/", Backtick, "a"}

Texts == SeqsUpTo(TextChars, MaxText)

\* the pieces the urls are written with
UrlPieces ==
    {<<"j", "a", "v", "a", "s", "c", "r", "i", "p", "t">>,
     <<"v", "b", "s", "c", "r", "i", "p", "t">>,
     <<"d", "a", "t", "a">>,
     <<"D", "A", "T", "A">>,
     <<":">>,
     <<"%", "3", "A">>,
     <<" ">>,
     <<"%", "2", "0">>,
     <<"%">>,
     <<"%", "A", "F">>,
     <<"%", "C", "3", "%", "A", "9">>,
     <<"/", "x">>}

Urls(n) == {Join(pieces) : pieces \in SeqsUpTo(UrlPieces, n)}

UrlArguments == {Null, Undefined} \cup {Str(u) : u \in Urls(MaxPieces)}

\* link nodes: the target a url, or undefined as parseRef leaves it when no
\* definition is seen
LinkNodes ==
    [target  : {Undefined} \cup {Str(u) : u \in Urls(MaxPieces - 1)},
     title   : {Undefined, Str(<< >>), Str(<<"T", "\"">>)},
     content : {[type |-> "text", content |-> <<"x", "<">>]}]

Calls ==
    [fn : {"sanitizeText"}, arg : Texts]
    \cup [fn : {"sanitizeUrl"}, arg : UrlArguments]
    \cup [fn : {"link.html"}, arg : LinkNodes]

Pending == [pending |-> TRUE]

SanitizeText ==
    /\ call # Null /\ call.fn = "sanitizeText"
    /\ returned = Pending
    /\ returned' = Str(sanitizeText(call.arg))
    /\ UNCHANGED call
    /\ UNCHANGED othersOfSanitize

SanitizeUrl ==
    /\ call # Null /\ call.fn = "sanitizeUrl"
    /\ returned = Pending
    /\ returned' = sanitizeUrl(call.arg)
    /\ UNCHANGED call
    /\ UNCHANGED othersOfSanitize

LinkHtmlCall ==
    /\ call # Null /\ call.fn = "link.html"
    /\ returned = Pending
    /\ returned' = Str(LinkHtml(call.arg))
    /\ UNCHANGED call
    /\ UNCHANGED othersOfSanitize

InitSanitize ==
    /\ call \in Calls
    /\ returned = Pending

IdleSanitize ==
    /\ call = Null
    /\ returned = Pending

NextSanitize == SanitizeText \/ SanitizeUrl \/ LinkHtmlCall

-----------------------------------------------------------------------------
(* outputFor *)

\* the output properties a rule may provide
Properties == {"html", "vue", "md"}

\* a rule the table does not have
NoRule == [present |-> FALSE, properties |-> {}]

\* a rule with an output function for each of the given properties
RuleWith(properties) == [present |-> TRUE, properties |-> properties]

\* defaultRules.Array: it provides vue and html
DefaultArrayRule == RuleWith({"vue", "html"})

\* an output function is known by the table, the rule and the property it is
\* found under
OutputFunction(table, type, prop) == [table |-> table, type |-> type, property |-> prop]

\* (mutant) a property missing from the table's Array rule is taken from the
\* default Array rule
ArrayRuleMerged(table) ==
    [rule  |-> RuleWith(table.Array.properties \cup DefaultArrayRule.properties),
     table |-> IF table.Array.present THEN "rules" ELSE "defaultRules"]

\* var arrayRule = rules.Array || defaultRules.Array
ArrayRuleOf(table) ==
    IF table.Array.present
    THEN [rule |-> table.Array, table |-> "rules"]
    ELSE [rule |-> DefaultArrayRule, table |-> "defaultRules"]

\* outputFor(rules, property): the error it throws or the joiner the returned
\* renderer holds
OutputFor ==
    /\ outputPc = "new"
    /\ IF property = ""
       THEN /\ outputPc' = "error"
            /\ outputError' = "property must be defined"
            /\ UNCHANGED arrayRuleOutput
       ELSE LET arrayRule == ArrayRuleOf(outputRules)
            IN  IF property \notin arrayRule.rule.properties
                THEN /\ outputPc' = "error"
                     /\ outputError' = "missing Array joiner"
                     /\ UNCHANGED arrayRuleOutput
                ELSE /\ outputPc' = "built"
                     /\ arrayRuleOutput' = OutputFunction(arrayRule.table, "Array", property)
                     /\ UNCHANGED outputError
    /\ UNCHANGED <<outputRules, property, ast, rendered>>
    /\ UNCHANGED othersOfOutput

\* rules[ast.type][property](ast, nestedOutput, state): the call fails with a
\* TypeError when the table has no such rule or the rule no such property
NodeOutput(node) ==
    IF /\ node.type \in DOMAIN outputRules
       /\ property \in outputRules[node.type].properties
    THEN [threw |-> FALSE, calls |-> <<OutputFunction("rules", node.type, property)>>]
    ELSE [threw |-> TRUE, calls |-> << >>]

\* nestedOutput(ast, state): the output functions called, in call order.  The
\* Array joiner hands each node of the array to output, as the joiners of
\* defaultRules do.
NestedOutput(given) ==
    IF given.isArray
    THEN LET outputs == [i \in 1 .. Len(given.nodes) |-> NodeOutput(given.nodes[i])]
         IN  [threw |-> \E i \in 1 .. Len(outputs) : outputs[i].threw,
              calls |-> <<arrayRuleOutput>>
                            \o Join([i \in 1 .. Len(outputs) |-> outputs[i].calls])]
    ELSE NodeOutput(given.nodes[1])

NodeTypes == {"text", "link"}

\* a single node, or an array of at most MaxAst nodes
Asts ==
    [isArray : {FALSE}, nodes : {<<[type |-> t]>> : t \in NodeTypes}]
    \cup [isArray : {TRUE}, nodes : SeqsUpTo([type : NodeTypes], MaxAst)]

\* outerOutput(ast, state)
OuterOutput ==
    /\ outputPc = "built"
    /\ \E given \in Asts :
          /\ ast' = given
          /\ rendered' = [null |-> FALSE, tree |-> given, output |-> NestedOutput(given)]
    /\ UNCHANGED <<outputRules, property, arrayRuleOutput, outputPc, outputError>>
    /\ UNCHANGED othersOfOutput

\* rule tables with or without an Array rule and a text rule; no table has a
\* link rule
OutputTables ==
    [Array : {NoRule} \cup {RuleWith(ps) : ps \in SUBSET Properties},
     text  : {NoRule} \cup {RuleWith(ps) : ps \in SUBSET Properties}]

InitOutput ==
    /\ outputRules \in OutputTables
    /\ property \in Properties \cup {""}
    /\ arrayRuleOutput = Null
    /\ outputPc = "new"
    /\ outputError = ""
    /\ ast = Null
    /\ rendered = Null

IdleOutput ==
    /\ outputRules = Null
    /\ property = ""
    /\ arrayRuleOutput = Null
    /\ outputPc = "idle"
    /\ outputError = ""
    /\ ast = Null
    /\ rendered = Null

NextOutput == OutputFor \/ OuterOutput

-----------------------------------------------------------------------------
(* Reference links, reference images and definitions *)

\* \s
IsSpace(c) == c \in {" ", "\n", "\t"}

\* s without its leading whitespace
RECURSIVE SkipSpace(_)
SkipSpace(s) ==
    IF s # << >> /\ IsSpace(Head(s)) THEN SkipSpace(Tail(s)) ELSE s

\* .replace(/\s+/g, ' ')
RECURSIVE CollapseSpace(_)
CollapseSpace(s) ==
    IF s = << >> THEN << >>
    ELSE IF IsSpace(Head(s)) THEN <<" ">> \o CollapseSpace(SkipSpace(s))
    ELSE <<Head(s)>> \o CollapseSpace(Tail(s))

\* .replace(/\s+/g, ' ').toLowerCase()
RefKey(s) == ToLowerCase(CollapseSpace(s))

\* a key that names a property of Object.prototype: a lookup of it in an
\* object literal finds the inherited value
ConstructorKey == <<"c", "o", "n", "s", "t", "r", "u", "c", "t", "o", "r">>

InheritedKeys == {ConstructorKey}

\* the reference keys as they are written
RawKeys ==
    {<<"y">>, <<"Y">>, <<"y", " ", "z">>, <<"Y", "\n", " ", "Z">>, ConstructorKey}

\* the link text of a reference, its key when the reference names none
LinkTexts == {<<"y", " ", " ", "Z">>}

\* what a definition gives: a target, and a title or none
Definitions ==
    {[target |-> Str(<<"/", "1">>), title |-> Undefined],
     [target |-> Str(<<"/", "2">>), title |-> Str(<<"T">>)]}

\* state._refs[ref] is truthy: an own list, or an inherited property
HasRefs(ref) == ref \in DOMAIN _refs \/ (refsMade /\ ref \in InheritedKeys)

\* (mutant) def.parse leaves the nodes of earlier references as they are
PatchNoRefNodes(heap, list, target, title) == heap

\* state._refs[def].forEach(refNode => { refNode.target = target; ... })
PatchRefNodes(heap, list, target, title) ==
    [n \in DOMAIN heap |->
        IF n \in Range(list)
        THEN [heap[n] EXCEPT !.target = target, !.title = title]
        ELSE heap[n]]

\* parseRef(capture, state, refNode), called by reflink.parse (a link node) and
\* refimage.parse (an image node); capture2 is '' for [text][]
ParseRef(type, capture1, capture2) ==
    LET ref == RefKey(IF capture2 # << >> THEN capture2 ELSE capture1)
        seen == ref \in DOMAIN _defs
        refNode == [type   |-> type,
                    target |-> IF seen THEN _defs[ref].target ELSE Undefined,
                    title  |-> IF seen THEN _defs[ref].title ELSE Undefined]
    IN  /\ refsMade' = TRUE
        /\ IF ref \notin DOMAIN _refs /\ ref \in InheritedKeys
           THEN \* the inherited value is no list: push is not a function
                /\ refsError' = "TypeError"
                /\ UNCHANGED <<_defs, _refs, nodes, events>>
           ELSE /\ nodes' = Append(nodes, refNode)
                /\ _refs' = [k \in DOMAIN _refs \cup {ref} |->
                               IF k = ref
                               THEN (IF ref \in DOMAIN _refs THEN _refs[ref] ELSE << >>)
                                        \o <<Len(nodes) + 1>>
                               ELSE _refs[k]]
                /\ events' = Append(events, [rule |-> "ref", key |-> ref,
                                             node |-> Len(nodes) + 1,
                                             target |-> Undefined, title |-> Undefined])
                /\ UNCHANGED <<_defs, refsError>>

Reflink ==
    /\ refsError = ""
    /\ Len(events) < MaxEvents
    /\ \E capture1 \in LinkTexts, capture2 \in RawKeys \cup {<< >>} :
          ParseRef("link", capture1, capture2)
    /\ UNCHANGED othersOfRefs

Refimage ==
    /\ refsError = ""
    /\ Len(events) < MaxEvents
    /\ \E capture1 \in LinkTexts, capture2 \in RawKeys \cup {<< >>} :
          ParseRef("image", capture1, capture2)
    /\ UNCHANGED othersOfRefs

\* defaultRules.def.parse
Def ==
    /\ refsError = ""
    /\ Len(events) < MaxEvents
    /\ \E capture1 \in RawKeys, found \in Definitions :
          LET def == RefKey(capture1)
              target == found.target
              title == found.title
          IN  IF def \notin DOMAIN _refs /\ HasRefs(def)
              THEN \* the inherited value is no list: forEach is not a function
                   /\ refsError' = "TypeError"
                   /\ UNCHANGED <<_defs, _refs, nodes, events, refsMade>>
              ELSE /\ nodes' = IF def \in DOMAIN _refs
                               THEN PatchRefNodes(nodes, _refs[def], target, title)
                               ELSE nodes
                   /\ _defs' = [k \in DOMAIN _defs \cup {def} |->
                                  IF k = def
                                  THEN [target |-> target, title |-> title]
                                  ELSE _defs[k]]
                   /\ events' = Append(events, [rule |-> "def", key |-> def, node |-> 0,
                                                target |-> target, title |-> title])
                   /\ UNCHANGED <<_refs, refsMade, refsError>>
    /\ UNCHANGED othersOfRefs

InitRefs ==
    /\ _defs = << >>
    /\ _refs = << >>
    /\ refsMade = FALSE
    /\ nodes = << >>
    /\ events = << >>
    /\ refsError = ""

NextRefs == Reflink \/ Refimage \/ Def

-----------------------------------------------------------------------------
(* Scanning a string *)

SetMax(S) == CHOOSE x \in S : \A y \in S : x >= y

\* \s, \d and \w
Whitespace == {" ", "\n", "\t", "\r", "\f"}

DigitChars == Range(Digits)

WordChars == Range(UpperCase) \cup Range(LowerCase) \cup DigitChars \cup {"_"}

\* the character of s at i, "" past the end
CharAt(s, i) == IF i >= 1 /\ i <= Len(s) THEN s[i] ELSE ""

\* where a greedy [set]* that starts at i stops: the first position from i on
\* whose character is not in set, Len(s) + 1 when there is none
RECURSIVE RunEnd(_, _, _)
RunEnd(s, i, set) ==
    IF i > Len(s) \/ s[i] \notin set THEN i ELSE RunEnd(s, i + 1, set)

\* where a greedy [^\n]* that starts at i stops
RECURSIVE LineEnd(_, _)
LineEnd(s, i) ==
    IF i > Len(s) \/ s[i] = "\n" THEN i ELSE LineEnd(s, i + 1)

\* where the run of characters of set that ends at i starts
RECURSIVE RunStart(_, _, _)
RunStart(s, i, set) ==
    IF i < 1 \/ s[i] \notin set THEN i + 1 ELSE RunStart(s, i - 1, set)

\* the first position from lo to hi where P holds
First(P(_), lo, hi) == CHOOSE i \in lo .. hi : P(i) /\ \A j \in lo .. i - 1 : ~ P(j)

\* the characters of s whose positions are in keep
RECURSIVE KeepFrom(_, _, _)
KeepFrom(s, keep, i) ==
    IF i > Len(s) THEN << >>
    ELSE (IF i \in keep THEN <<s[i]>> ELSE << >>) \o KeepFrom(s, keep, i + 1)

\* source.substring(n)
Substring(text, n) == SubSeq(text, n + 1, Len(text))

-----------------------------------------------------------------------------
(* preprocess *)

\* (mutant) only the first replacement is made
CarriageReturnsOnly(text) ==
    Join([i \in 1 .. Len(text) |->
            CASE text[i] = "\r" -> <<"\n">>
              [] text[i] = "\n" /\ CharAt(text, i - 1) = "\r" -> << >>
              [] OTHER -> <<text[i]>>])

\* source.replace(/\r\n?/g, '\n').replace(/\f/g, '').replace(/\t/g, '    ')
preprocess(text) ==
    Join([i \in 1 .. Len(text) |->
            CASE text[i] = "\r" -> <<"\n">>
              [] text[i] = "\n" /\ CharAt(text, i - 1) = "\r" -> << >>
              [] text[i] = "\f" -> << >>
              [] text[i] = "\t" -> <<" ", " ", " ", " ">>
              [] OTHER -> <<text[i]>>])

-----------------------------------------------------------------------------
(* The regular expressions of the default rules.  Each is given by the match *)
(* a backtracking engine finds for it: the first in the order the engine    *)
(* tries greedy and lazy repetitions and alternatives.                      *)

\* what exec returns: null, or the capture with capture[0] in str and the
\* end of each group; len and q are what the dispatcher reads
NoCaptureOf == [hit |-> FALSE, len |-> 0, q |-> 0, str |-> << >>, one |-> << >>, two |-> << >>]

CaptureOf(text, end, one, two) ==
    [hit |-> TRUE, len |-> end - 1, q |-> 0, str |-> SubSeq(text, 1, end - 1),
     one |-> one, two |-> two]

\* the position after the last "\n" of the run of "\n" and " " that starts at
\* i: where a greedy (?:\n *)+\n or (?:\n *)*\n that starts at i ends
BlankLinesEnd(s, i) ==
    SetMax({j \in i .. RunEnd(s, i, {"\n", " "}) - 1 : s[j] = "\n"}) + 1

\* the number of "\n" in the run of "\n" and " " that starts at i
BlankLinesCount(s, i) ==
    Cardinality({j \in i .. RunEnd(s, i, {"\n", " "}) - 1 : s[j] = "\n"})

\* newline: /^(?:\n *)*\n/
NewlineR(s) ==
    IF CharAt(s, 1) = "\n" THEN CaptureOf(s, BlankLinesEnd(s, 1), << >>, << >>)
    ELSE NoCaptureOf

\* br: /^ {2,}\n/
BrR(s) ==
    LET spaces == RunEnd(s, 1, {" "})
    IN  IF spaces > 2 /\ CharAt(s, spaces) = "\n"
        THEN CaptureOf(s, spaces + 1, << >>, << >>)
        ELSE NoCaptureOf

\* the lookahead of text at i:
\* (?=[^0-9A-Za-z\s\u00c0-\uffff]|\n\n| {2,}\n|\w+:\S|$); no document
\* holds a character from \u00c0 on
TextEndsAt(s, i) ==
    \/ i = Len(s) + 1
    \/ s[i] \notin DigitChars \cup Range(UpperCase) \cup Range(LowerCase) \cup Whitespace
    \/ s[i] = "\n" /\ CharAt(s, i + 1) = "\n"
    \/ LET spaces == RunEnd(s, i, {" "})
       IN  spaces >= i + 2 /\ CharAt(s, spaces) = "\n"
    \/ LET word == RunEnd(s, i, WordChars)
       IN  /\ word > i
           /\ CharAt(s, word) = ":"
           /\ word + 1 <= Len(s)
           /\ s[word + 1] \notin Whitespace

\* text: /^[\s\S]+?(?=...)/: the lazy [\s\S]+? stops at the first position
\* after the first character where the lookahead holds
TextR(s) ==
    IF s = << >> THEN NoCaptureOf
    ELSE CaptureOf(s, First(LAMBDA i : TextEndsAt(s, i), 2, Len(s) + 1), << >>, << >>)

\* \n(?! *\n) fails at i: s[i] is a "\n" that a line of spaces follows
EndsParagraphAt(s, i) ==
    s[i] = "\n" /\ CharAt(s, RunEnd(s, i + 1, {" "})) = "\n"

\* paragraph: /^((?:[^\n]|\n(?! *\n))+)(?:\n *)+\n/: group 1 runs up to the
\* first "\n" that a line of spaces follows
ParagraphR(s) ==
    IF \E i \in 1 .. Len(s) : EndsParagraphAt(s, i)
    THEN LET end == First(LAMBDA i : EndsParagraphAt(s, i), 1, Len(s))
         IN  IF end = 1 THEN NoCaptureOf
             ELSE CaptureOf(s, BlankLinesEnd(s, end), SubSeq(s, 1, end - 1), << >>)
    ELSE NoCaptureOf

\* a line of code starts at i: four spaces and one more character of the line
CodeLineAt(s, i) ==
    /\ \A k \in i .. i + 3 : CharAt(s, k) = " "
    /\ CharAt(s, i + 4) \notin {"", "\n"}

\* codeBlock: /^(?:    [^\n]+\n*)+(?:\n *)+\n/ from a line of code at i on: the
\* end of the match that takes the most lines of code, 0 when there is none
RECURSIVE CodeBlockEnd(_, _)
CodeBlockEnd(s, i) ==
    IF ~ CodeLineAt(s, i) THEN 0
    ELSE LET line == LineEnd(s, i)
             more == CodeBlockEnd(s, RunEnd(s, line, {"\n"}))
         IN  IF more > 0 THEN more
             ELSE IF BlankLinesCount(s, line) >= 2 THEN BlankLinesEnd(s, line)
             ELSE 0

CodeBlockR(s) ==
    IF CodeBlockEnd(s, 1) > 0 THEN CaptureOf(s, CodeBlockEnd(s, 1), << >>, << >>)
    ELSE NoCaptureOf

\* LIST_BULLET, (?:[*+-]|\d+\.), at i: the position after it, 0 when there is
\* none
BulletEnd(s, i) ==
    IF CharAt(s, i) \in {"*", "+", "-"} THEN i + 1
    ELSE LET digits == RunEnd(s, i, DigitChars)
         IN  IF i <= Len(s) /\ digits > i /\ CharAt(s, digits) = "." THEN digits + 1 ELSE 0

\* \1 LIST_BULLET and a space are at i, \1 being indent spaces
SiblingBulletAt(s, i, indent) ==
    /\ \A k \in i .. i + indent - 1 : CharAt(s, k) = " "
    /\ BulletEnd(s, i + indent) > 0
    /\ CharAt(s, BulletEnd(s, i + indent)) = " "

\* the end of LIST_R at i, (?:\n{2,}(?! )(?!\1 LIST_BULLET )\n*|\s*\n*$), the
\* position after it or 0: two "\n" or more that no space and no sibling
\* bullet follows (of three "\n" or more the last is what follows the
\* others), or nothing but white space up to the end
ListEndAt(s, i, indent) ==
    LET newlines == RunEnd(s, i, {"\n"})
    IN  IF /\ newlines - i >= 2
           /\ \/ newlines - i >= 3
              \/ /\ CharAt(s, newlines) # " "
                 /\ ~ SiblingBulletAt(s, newlines, indent)
        THEN newlines
        ELSE IF RunEnd(s, i, Whitespace) = Len(s) + 1 THEN Len(s) + 1
        ELSE 0

\* LIST_R: ^( *)(LIST_BULLET) [\s\S]+?(?:...); the lazy [\s\S]+? stops at the
\* first position where the end matches
LIST_R(s) ==
    LET bullet == RunEnd(s, 1, {" "})
        space == BulletEnd(s, bullet)
    IN  IF space > 0 /\ CharAt(s, space) = " " /\ space + 2 <= Len(s) + 1
        THEN LET end == First(LAMBDA i : ListEndAt(s, i, bullet - 1) > 0,
                              space + 2, Len(s) + 1)
             IN  CaptureOf(s, ListEndAt(s, end, bullet - 1),
                           SubSeq(s, 1, bullet - 1), SubSeq(s, bullet, space - 1))
        ELSE NoCaptureOf

\* LIST_LOOKBEHIND_R, /(?:^|\n)( *)$/: the spaces s ends with, when they are
\* all of s or follow a "\n"
LIST_LOOKBEHIND_R(s) ==
    LET spaces == RunStart(s, Len(s), {" "})
    IN  IF spaces = 1 \/ s[spaces - 1] = "\n"
        THEN [hit |-> TRUE, one |-> SubSeq(s, spaces, Len(s))]
        ELSE [hit |-> FALSE, one |-> << >>]

\* LIST_ITEM_PREFIX, ( *)(LIST_BULLET) +, at i: the position after it, 0 when
\* there is none
ItemPrefixEnd(s, i) ==
    LET space == BulletEnd(s, RunEnd(s, i, {" "}))
    IN  IF space > 0 /\ CharAt(s, space) = " " THEN RunEnd(s, space, {" "}) ELSE 0

\* LIST_ITEM_PREFIX_R, ^( *)(LIST_BULLET) +
LIST_ITEM_PREFIX_R(s) ==
    IF ItemPrefixEnd(s, 1) > 0 THEN CaptureOf(s, ItemPrefixEnd(s, 1), << >>, << >>)
    ELSE NoCaptureOf

\* LIST_ITEM_R (flags gm) from i on:
\* LIST_ITEM_PREFIX [^\n]*(?:\n(?!\1 LIST_BULLET )[^\n]*)*(\n|$); an item
\* starts at the first item prefix and runs up to the first "\n" that a
\* sibling bullet follows, or to the end
RECURSIVE ItemsFrom(_, _)
ItemsFrom(s, i) ==
    IF \E j \in i .. Len(s) : ItemPrefixEnd(s, j) > 0
    THEN LET start == First(LAMBDA j : ItemPrefixEnd(s, j) > 0, i, Len(s))
             indent == RunEnd(s, start, {" "}) - start
             prefix == ItemPrefixEnd(s, start) - 1
             StopsAt(j) == j = Len(s) \/ (s[j] = "\n" /\ SiblingBulletAt(s, j + 1, indent))
             end == First(StopsAt, prefix, Len(s))
         IN  <<SubSeq(s, start, end)>> \o ItemsFrom(s, end + 1)
    ELSE << >>

\* s.replace(/\n{2,}$/, '\n'), BLOCK_END_R and LIST_BLOCK_END_R
ReplaceBlockEnd(s) ==
    LET newlines == RunStart(s, Len(s), {"\n"})
    IN  IF Len(s) + 1 - newlines >= 2 THEN SubSeq(s, 1, newlines - 1) \o <<"\n">> ELSE s

\* s.replace(/ *\n+$/, replacement), LIST_ITEM_END_R
ReplaceItemEnd(s, replacement) ==
    LET newlines == RunStart(s, Len(s), {"\n"})
        spaces == RunStart(s, newlines - 1, {" "})
    IN  IF newlines <= Len(s) THEN SubSeq(s, 1, spaces - 1) \o replacement ELSE s

\* the position where the line of position i starts
RECURSIVE LineStart(_, _)
LineStart(s, i) == IF i <= 1 \/ s[i - 1] = "\n" THEN i ELSE LineStart(s, i - 1)

\* s.replace(new RegExp('^ {1,' + space + '}', 'gm'), ''): every line loses
\* its first spaces, space of them at most
Unindent(s, space) ==
    KeepFrom(s, {i \in 1 .. Len(s) :
                    ~ /\ i - LineStart(s, i) < space
                      /\ \A k \in LineStart(s, i) .. i : s[k] = " "}, 1)

\* s.replace(/^    /gm, ''): every line loses its first four spaces when it
\* has them
UnindentCode(s) ==
    KeepFrom(s, {i \in 1 .. Len(s) :
                    ~ /\ i - LineStart(s, i) < 4
                      /\ \A k \in LineStart(s, i) .. LineStart(s, i) + 3 :
                            CharAt(s, k) = " "}, 1)

\* s.replace(/\n+$/, '')
StripNewlines(s) ==
    SubSeq(s, 1, RunStart(s, Len(s), {"\n"}) - 1)

-----------------------------------------------------------------------------
(* The match functions of the default rules *)

\* blockRegex(regex)
BlockRegex(capture, st) == IF st.inline THEN NoCaptureOf ELSE capture

\* anyScopeRegex(regex)
AnyScopeRegex(capture, st) == capture

\* state.prevCapture == null ? '' : state.prevCapture[0]
PrevCaptureStr(st) == IF st.prevCapture = Null THEN << >> ELSE st.prevCapture.str

\* defaultRules.list.match: the capture is taken from the source with the
\* indentation of the previous capture put before it
ListMatch(text, st) ==
    LET isStartOfLineCapture == LIST_LOOKBEHIND_R(PrevCaptureStr(st))
        isListBlock == st._list \/ ~ st.inline
    IN  IF isStartOfLineCapture.hit /\ isListBlock
        THEN LIST_R(isStartOfLineCapture.one \o text)
        ELSE NoCaptureOf

\* rules[type].match(source, state, prevCaptureStr)
MatchOf(type, text, st) ==
    CASE type = "codeBlock" -> BlockRegex(CodeBlockR(text), st)
      [] type = "list"      -> ListMatch(text, st)
      [] type = "newline"   -> BlockRegex(NewlineR(text), st)
      [] type = "paragraph" -> BlockRegex(ParagraphR(text), st)
      [] type = "br"        -> AnyScopeRegex(BrR(text), st)
      [] type = "text"      -> AnyScopeRegex(TextR(text), st)

\* The rules of defaultRules that can match a document written with letters,
\* "+", spaces and line ends, with their orders (currOrder++); the regex of
\* every other default rule asks for a character no document holds.
DefaultRule(order) ==
    [match |-> TRUE, order |-> order, orderNaN |-> FALSE, quality |-> "none",
     parse |-> "untyped", anchored |-> TRUE]

DefaultTables ==
    {[rules |-> [t \in {"codeBlock", "list", "newline", "paragraph", "br", "text"} |->
                    CASE t = "codeBlock" -> DefaultRule(4)
                      [] t = "list"      -> DefaultRule(7)
                      [] t = "newline"   -> DefaultRule(10)
                      [] t = "paragraph" -> DefaultRule(11)
                      [] t = "br"        -> DefaultRule(24)
                      [] OTHER           -> DefaultRule(25)],
      keys |-> <<"codeBlock", "list", "newline", "paragraph", "br", "text">>]}

-----------------------------------------------------------------------------
(* The parse functions of the default rules *)

\* defaultRules.codeBlock.parse
CodeBlockContent(capture) == StripNewlines(UnindentCode(capture.str))

\* the node a rule without nested parse returns, its type filled in by
\* nestedParse
LeafNode(type, capture) ==
    CASE type = "codeBlock" -> [type |-> type, content |-> CodeBlockContent(capture)]
      [] type = "text"      -> [type |-> type, content |-> capture.str]
      [] OTHER              -> [type |-> type, content |-> << >>]

\* list.parse: capture[0].replace(LIST_BLOCK_END_R, '\n').match(LIST_ITEM_R)
ListItems(capture) == ItemsFrom(ReplaceBlockEnd(capture.str), 1)

\* list.parse: one item without its bullet and the indentation of its lines
ItemContent(item) ==
    LET prefixCapture == LIST_ITEM_PREFIX_R(item)
        space == IF prefixCapture.hit THEN prefixCapture.len ELSE 0
        unindented == Unindent(item, space)
    IN  Substring(unindented, LIST_ITEM_PREFIX_R(unindented).len)

\* content.indexOf('\n\n') !== -1
ContainsBlocks(content) == Contains(content, <<"\n", "\n">>)

\* list.parse: the nested parse of item i, and the state it runs in
ItemFrame(capture, items, i, itemContent, lastItemWasAParagraph, st) ==
    LET content == ItemContent(items[i])
        isLastItem == i = Len(items)
        thisItemIsAParagraph ==
            ContainsBlocks(content) \/ (isLastItem /\ lastItemWasAParagraph)
        adjustedContent ==
            IF thisItemIsAParagraph
            THEN ReplaceItemEnd(content, <<"\n", "\n">>)
            ELSE ReplaceItemEnd(content, << >>)
    IN  [frame |-> [source |-> adjustedContent,
                    result |-> << >>,
                    caller |-> [rule |-> "list", capture |-> capture, items |-> items,
                                i |-> i, itemContent |-> itemContent,
                                lastItemWasAParagraph |-> thisItemIsAParagraph,
                                oldStateInline |-> st.inline,
                                oldStateList |-> st._list]],
         state |-> [st EXCEPT !._list = TRUE, !.inline = ~ thisItemIsAParagraph]]

-----------------------------------------------------------------------------
(* The parse of a document with the default rules *)

Top == stack[Len(stack)]

\* the frames under the top frame
Callers == SubSeq(stack, 1, Len(stack) - 1)

\* a nestedParse is running and its while (source) goes on
Running == stack # << >> /\ thrown = "" /\ Top.source # << >>

\* a nestedParse is running and its source is used up
Returning == stack # << >> /\ thrown = "" /\ Top.source = << >>

\* the do-while of nestedParse chose a rule whose parse is to be called
Parsing == Running /\ chosen # Null

\* the do-while of nestedParse on the source of the top frame
Chosen ==
    LET caps == [t \in Range(ruleList) |-> MatchOf(t, Top.source, state)]
        sel == Probe(ruleList, caps, 1, NoBest)
    IN  [found    |-> sel.best.found,
         ruleType |-> sel.best.ruleType,
         capture  |-> IF sel.best.found THEN caps[sel.best.ruleType] ELSE NoCaptureOf]

\* result.push(parsed); state.prevCapture = capture;
\* source = source.substring(state.prevCapture[0].length)
Advance(frame, parsed, capture) ==
    [frame EXCEPT !.result = Append(@, parsed),
                  !.source = Substring(@, capture.len)]

\* (mutant) the state keeps the capture that was stored last
KeepPrevCapture(st, capture) == st

\* state.prevCapture = capture, after rule.parse returned
SetPrevCapture(st, capture) == [st EXCEPT !.prevCapture = Str(capture.str)]

\* what an iteration chose, and the source it chose it on
Iteration(found) ==
    [null |-> FALSE, depth |-> Len(stack), ruleType |-> found.ruleType,
     source |-> Top.source, capture |-> found.capture]

\* the lines the documents are written with
Lines ==
    {<<"+", " ", "a">>,
     <<" ", " ", " ", "+", " ", "+", " ", "a">>,
     <<" ", " ", " ">>,
     <<"\t", "a", "b">>,
     << >>}

\* lines.join('\n')
RECURSIVE JoinLines(_)
JoinLines(lines) ==
    IF lines = << >> THEN << >>
    ELSE IF Len(lines) = 1 THEN Head(lines)
    ELSE Head(lines) \o <<"\n">> \o JoinLines(Tail(lines))

\* documents of at most MaxLines lines
Documents == {JoinLines(lines) : lines \in SeqsUpTo(Lines, MaxLines)}

\* the states a parse is called with: block or inline, in block scope with
\* or without disableAutoBlockNewlines, new or left by an earlier parse with
\* the capture that parse stored last
GivenStates ==
    {[inline |-> FALSE, disableAutoBlockNewlines |-> FALSE, prevCapture |-> Null],
     [inline |-> FALSE, disableAutoBlockNewlines |-> TRUE, prevCapture |-> Null],
     [inline |-> TRUE, disableAutoBlockNewlines |-> FALSE, prevCapture |-> Null],
     [inline |-> FALSE, disableAutoBlockNewlines |-> FALSE,
      prevCapture |-> Str(<<"a", "\n", "\n">>)]}

\* outerParse(source, state)
DefaultParse ==
    /\ pc = "ready"
    /\ stack = << >> /\ tree = Null /\ thrown = ""
    /\ \E text \in Documents, given \in GivenStates :
          LET suffixed == IF ~ given.inline /\ ~ given.disableAutoBlockNewlines
                          THEN text \o <<"\n", "\n">>
                          ELSE text
          IN  /\ input' = [null |-> FALSE, source |-> text, state |-> given]
              /\ state' = [[inline |-> given.inline, _list |-> FALSE,
                            prevCapture |-> given.prevCapture]
                              EXCEPT !.prevCapture = Null]
              /\ stack' = <<[source |-> preprocess(suffixed), result |-> << >>,
                             caller |-> [rule |-> "outer"]]>>
    /\ UNCHANGED <<tree, chosen, thrown>>
    /\ UNCHANGED othersOfDefault

\* the first half of an iteration of while (source): the do-while chooses the
\* rule and its capture, or the parse throws for want of one
DefaultDispatch ==
    /\ Running
    /\ chosen = Null
    /\ LET found == Chosen
       IN  IF found.found
           THEN chosen' = Iteration(found) /\ UNCHANGED thrown
           ELSE thrown' = "no matching rule" /\ UNCHANGED chosen
    /\ UNCHANGED <<input, state, stack, tree>>
    /\ UNCHANGED othersOfDefault

\* the second half, for a rule that parses without a nested parse (codeBlock,
\* newline, br, text)
ParseLeaf ==
    /\ Parsing
    /\ chosen.ruleType \notin {"paragraph", "list"}
    /\ stack' = Append(Callers,
                       Advance(Top, LeafNode(chosen.ruleType, chosen.capture),
                               chosen.capture))
    /\ state' = SetPrevCapture(state, chosen.capture)
    /\ chosen' = Null
    /\ UNCHANGED <<input, tree, thrown>>
    /\ UNCHANGED othersOfDefault

\* the second half, for paragraph: parseCaptureInline calls parseInline,
\* which calls the nested parse of capture[1] with state.inline set
ParseParagraph ==
    /\ Parsing
    /\ chosen.ruleType = "paragraph"
    /\ stack' = Append(stack,
                       [source |-> chosen.capture.one,
                        result |-> << >>,
                        caller |-> [rule |-> "paragraph",
                                    capture |-> chosen.capture,
                                    isCurrentlyInline |-> state.inline]])
    /\ state' = [state EXCEPT !.inline = TRUE]
    /\ chosen' = Null
    /\ UNCHANGED <<input, tree, thrown>>
    /\ UNCHANGED othersOfDefault

\* the second half, for list: list.parse splits the capture into items and
\* calls the nested parse of the first one
ParseList ==
    /\ Parsing
    /\ chosen.ruleType = "list"
    /\ LET items == ListItems(chosen.capture)
       IN  IF items = << >>
           THEN \* match returned null: items.map throws
                /\ thrown' = "TypeError"
                /\ UNCHANGED <<stack, state>>
           ELSE LET first == ItemFrame(chosen.capture, items, 1, << >>, FALSE, state)
                IN  /\ stack' = Append(stack, first.frame)
                    /\ state' = first.state
                    /\ UNCHANGED thrown
    /\ chosen' = Null
    /\ UNCHANGED <<input, tree>>
    /\ UNCHANGED othersOfDefault

\* the nested parse of a paragraph returns: parseInline restores state.inline
\* and the iteration that chose the paragraph ends
ReturnParagraph ==
    /\ Returning
    /\ Top.caller.rule = "paragraph"
    /\ LET parsed == [type |-> "paragraph", content |-> Top.result]
       IN  stack' = Append(SubSeq(stack, 1, Len(stack) - 2),
                           Advance(stack[Len(stack) - 1], parsed, Top.caller.capture))
    /\ state' = SetPrevCapture([state EXCEPT !.inline = Top.caller.isCurrentlyInline],
                               Top.caller.capture)
    /\ UNCHANGED <<input, tree, chosen, thrown>>
    /\ UNCHANGED othersOfDefault

\* the nested parse of a list item returns: list.parse restores the state and
\* goes on with the next item, or returns and the iteration that chose the
\* list ends
ReturnItem ==
    /\ Returning
    /\ Top.caller.rule = "list"
    /\ LET caller == Top.caller
           restored == [state EXCEPT !.inline = caller.oldStateInline,
                                     !._list = caller.oldStateList]
           itemContent == Append(caller.itemContent, Top.result)
           bullet == caller.capture.two
           parsed == [type |-> "list", ordered |-> Len(bullet) > 1, items |-> itemContent]
       IN  IF caller.i < Len(caller.items)
           THEN LET next == ItemFrame(caller.capture, caller.items, caller.i + 1,
                                      itemContent, caller.lastItemWasAParagraph, restored)
                IN  /\ stack' = Append(Callers, next.frame)
                    /\ state' = next.state
           ELSE /\ stack' = Append(SubSeq(stack, 1, Len(stack) - 2),
                                   Advance(stack[Len(stack) - 1], parsed, caller.capture))
                /\ state' = SetPrevCapture(restored, caller.capture)
    /\ UNCHANGED <<input, tree, chosen, thrown>>
    /\ UNCHANGED othersOfDefault

\* the outermost nestedParse returns its result
ReturnOuter ==
    /\ Returning
    /\ Top.caller.rule = "outer"
    /\ tree' = [null |-> FALSE, nodes |-> Top.result]
    /\ stack' = << >>
    /\ UNCHANGED <<input, state, chosen, thrown>>
    /\ UNCHANGED othersOfDefault

IdleDefault ==
    /\ input = Null
    /\ state = Null
    /\ stack = << >>
    /\ tree = Null
    /\ chosen = Null
    /\ thrown = ""

NextDefault ==
    \/ ParserFor \/ DefaultParse
    \/ DefaultDispatch \/ ParseLeaf \/ ParseParagraph \/ ParseList
    \/ ReturnParagraph \/ ReturnItem \/ ReturnOuter


-----------------------------------------------------------------------------
(* defaultRules.Array.html *)

\* The nodes of an array are objects of a heap; the array holds them by their
\* place in it.  heap[i] is the object arr[i] of an array of Len(heap) nodes.
ArrayOf(heap) == [i \in 1 .. Len(heap) |-> i]

\* defaultRules.br.html
BrHtml == <<"<", "b", "r", ">">>

\* output(node, state): the html of the rule of node.type
NodeHtml(node) == IF node.type = "text" THEN TextHtml(node) ELSE BrHtml

\* (mutant) node = arr[i] is folded into as it is
SameNode(heap, node) == [heap |-> heap, node |-> node]

\* node = { type: 'text', content: node.content }: a new object
CopyNode(heap, node) ==
    [heap |-> Append(heap, [type |-> "text", content |-> heap[node].content]),
     node |-> Len(heap) + 1]

\* for (; i + 1 < arr.length && arr[i + 1].type === 'text'; i++)
\*     node.content += arr[i + 1].content;
RECURSIVE FoldSiblings(_, _, _, _)
FoldSiblings(arr, heap, node, i) ==
    IF i + 1 <= Len(arr) /\ heap[arr[i + 1]].type = "text"
    THEN FoldSiblings(arr,
                      [heap EXCEPT ![node].content = @ \o heap[arr[i + 1]].content],
                      node, i + 1)
    ELSE [heap |-> heap, i |-> i]

\* the for loop of Array.html from i on: the html and the heap it leaves
RECURSIVE ArrayHtmlFrom(_, _, _, _)
ArrayHtmlFrom(arr, heap, i, html) ==
    IF i > Len(arr) THEN [html |-> html, heap |-> heap]
    ELSE IF heap[arr[i]].type = "text"
    THEN LET copy == CopyNode(heap, arr[i])
             folded == FoldSiblings(arr, copy.heap, copy.node, i)
         IN  ArrayHtmlFrom(arr, folded.heap, folded.i + 1,
                           html \o NodeHtml(folded.heap[copy.node]))
    ELSE ArrayHtmlFrom(arr, heap, i + 1, html \o NodeHtml(heap[arr[i]]))

\* defaultRules.Array.html(arr, output, state)
ArrayHtml(arr, heap) == ArrayHtmlFrom(arr, heap, 1, << >>)

\* the nodes an array is made of: text nodes and a node of another type
ArrayNodes ==
    [type : {"text"}, content : {<< >>, <<"a">>, <<"<">>}] \cup {[type |-> "br"]}

\* the array is handed to Array.html
ArrayHtmlCall ==
    /\ applied # Null /\ applied.fn = "Array.html"
    /\ outcome = Pending
    /\ outcome' = ArrayHtml(ArrayOf(applied.arg), applied.arg)
    /\ UNCHANGED applied
    /\ UNCHANGED othersOfFunctions

-----------------------------------------------------------------------------
(* unescapeUrl *)

\* [^0-9A-Za-z\s]
IsEscapable(c) == c \notin WordChars \ {"_"} /\ c \notin Whitespace

\* (mutant) every backslash before such a character is removed, the ones that
\* were themselves escaped too
RECURSIVE StripBackslashes(_, _)
StripBackslashes(text, i) ==
    IF i > Len(text) THEN << >>
    ELSE IF text[i] = "\\" /\ i < Len(text) /\ IsEscapable(text[i + 1])
    THEN StripBackslashes(text, i + 1)
    ELSE <<text[i]>> \o StripBackslashes(text, i + 1)

\* rawUrlString.replace(/\\([^0-9A-Za-z\s])/g, '$1') from i on: the matches are
\* found left to right and the next search starts after the match
RECURSIVE UnescapeFrom(_, _)
UnescapeFrom(text, i) ==
    IF i > Len(text) THEN << >>
    ELSE IF text[i] = "\\" /\ i < Len(text) /\ IsEscapable(text[i + 1])
    THEN <<text[i + 1]>> \o UnescapeFrom(text, i + 2)
    ELSE <<text[i]>> \o UnescapeFrom(text, i + 1)

unescapeUrl(rawUrlString) == UnescapeFrom(rawUrlString, 1)

-----------------------------------------------------------------------------
(* populateInitialState and the state outerParse hands to nestedParse *)

\* a state object: its own properties and their values
NoState == << >>

HasOwn(obj, prop) == prop \in DOMAIN obj

\* for (var prop in defaultState) state[prop] = defaultState[prop]
CopyOver(givenState, defaultState) ==
    [prop \in DOMAIN givenState \cup DOMAIN defaultState |->
        IF HasOwn(defaultState, prop) THEN defaultState[prop] ELSE givenState[prop]]

\* populateInitialState(givenState, defaultState): a missing state is {} and
\* a missing template copies nothing
populateInitialState(givenState, defaultState) ==
    LET st == IF givenState = Null THEN NoState ELSE givenState
    IN  IF defaultState # Null THEN CopyOver(st, defaultState) ELSE st

\* latestState.prevCapture = null
WithPrevCapture(st, capture) ==
    [prop \in DOMAIN st \cup {"prevCapture"} |->
        IF prop = "prevCapture" THEN capture ELSE st[prop]]

-----------------------------------------------------------------------------
(* defaultImplicitParse *)

\* (mutant) ^.*\n{2,}$ tested on the source: the characters before the final
\* newlines are of one line
OneLineBlockEnd(text) ==
    \E i \in 1 .. Len(text) - 1 :
        /\ \A j \in 1 .. i - 1 : text[j] \notin {"\n", "\r"}
        /\ \A j \in i .. Len(text) : text[j] = "\n"

\* BLOCK_END_R.test(source): /\n{2,}$/ matches from some index up to the end
BlockEndTest(text) ==
    \E i \in 1 .. Len(text) - 1 : \A j \in i .. Len(text) : text[j] = "\n"

-----------------------------------------------------------------------------
(* parseTableRow: the nested parse of a row and the split into cells.  The  *)
(* rows are written with letters, spaces, "|" and "*", for which only the   *)
(* rules tableSeparator, em and text return a capture.                      *)

\* String.prototype.trim
Trim(text) ==
    SubSeq(text, RunEnd(text, 1, Whitespace), RunStart(text, Len(text), Whitespace) - 1)

\* tableSeparator.match: /^ *\| */ if state.inTable
TableSeparatorMatch(text, inTable) ==
    LET bar == RunEnd(text, 1, {" "})
    IN  IF inTable /\ CharAt(text, bar) = "|"
        THEN CaptureOf(text, RunEnd(text, bar + 1, {" "}), << >>, << >>)
        ELSE NoCaptureOf

\* the lazy repetition of em's second alternative from i on, units of it
\* being matched: the position of the closing "*", 0 when there is none
RECURSIVE EmClose(_, _, _)
EmClose(text, i, units) ==
    LET c == CharAt(text, i)
        after == RunEnd(text, i, Whitespace)
        d == CharAt(text, after)
    IN  CASE c = "" -> 0
          [] c = "*" /\ units >= 1 /\ CharAt(text, i + 1) # "*" -> i
          [] c = "*" /\ CharAt(text, i + 1) = "*" -> EmClose(text, i + 2, units + 1)
          [] c = "*" -> 0
          [] c = "\\" -> IF i + 1 <= Len(text) THEN EmClose(text, i + 2, units + 1) ELSE 0
          [] c \in Whitespace ->
                CASE d = "" -> 0
                  [] d = "\\" -> IF after + 1 <= Len(text)
                                 THEN EmClose(text, after + 2, units + 1) ELSE 0
                  [] d = "*" -> IF CharAt(text, after + 1) = "*"
                                THEN EmClose(text, after + 2, units + 1) ELSE 0
                  [] OTHER -> EmClose(text, after + 1, units + 1)
          [] OTHER -> EmClose(text, i + 1, units + 1)

\* em.match in inline scope, the alternative ^\*(?=\S)(...+?)\*(?!\*); the
\* alternative with "_" finds nothing in a source without "_"
EmMatch(text) ==
    IF CharAt(text, 1) = "*" /\ CharAt(text, 2) \notin Whitespace \cup {""}
    THEN LET close == EmClose(text, 2, 0)
         IN  IF close = 0 THEN NoCaptureOf
             ELSE CaptureOf(text, close + 1, << >>, SubSeq(text, 2, close - 1))
    ELSE NoCaptureOf

\* nestedParse in inline scope on such a source: tableSeparator comes before
\* em and em before text in the rule list; em.parse calls parse for
\* capture[2] || capture[1] with the state as it is
RECURSIVE RowParse(_, _)
RowParse(text, inTable) ==
    IF text = << >> THEN << >>
    ELSE LET separator == TableSeparatorMatch(text, inTable)
             em == EmMatch(text)
             plain == TextR(text)
         IN  IF separator.hit
             THEN <<[type |-> "tableSeparator"]>>
                      \o RowParse(Substring(text, separator.len), inTable)
             ELSE IF em.hit
             THEN <<[type |-> "em",
                     content |-> RowParse(IF em.two # << >> THEN em.two ELSE em.one,
                                          inTable)]>>
                      \o RowParse(Substring(text, em.len), inTable)
             ELSE <<[type |-> "text", content |-> plain.str]>>
                      \o RowParse(Substring(text, plain.len), inTable)

\* (mutant) every separator splits the row
SplitsAlways(tableRow, i, trimEndSeparators) == TRUE

\* !trimEndSeparators || (i !== 0 && i !== tableRow.length - 1); the nodes
\* are counted from 1 here
SplitsRow(tableRow, i, trimEndSeparators) ==
    ~ trimEndSeparators \/ (i # 1 /\ i # Len(tableRow))

\* node.content.replace(TABLE_CELL_END_TRIM, '') for a text node that the end
\* of the row or a separator follows
TrimCellEnd(tableRow, i) ==
    LET node == tableRow[i]
    IN  IF /\ node.type = "text"
           /\ (i = Len(tableRow) \/ tableRow[i + 1].type = "tableSeparator")
        THEN [node EXCEPT !.content = SubSeq(@, 1, RunStart(@, Len(@), {" "}) - 1)]
        ELSE node

\* tableRow.forEach of parseTableRow from node i on
RECURSIVE CellsFrom(_, _, _, _)
CellsFrom(tableRow, trimEndSeparators, i, cells) ==
    IF i > Len(tableRow) THEN cells
    ELSE IF tableRow[i].type = "tableSeparator"
    THEN CellsFrom(tableRow, trimEndSeparators, i + 1,
                   IF SplitsRow(tableRow, i, trimEndSeparators)
                   THEN Append(cells, << >>) ELSE cells)
    ELSE CellsFrom(tableRow, trimEndSeparators, i + 1,
                   [cells EXCEPT ![Len(cells)] = Append(@, TrimCellEnd(tableRow, i))])

\* parseTableRow(source, parse, state, trimEndSeparators): the row as parse
\* returned it, with state.inTable set, and the cells
parseTableRow(text, trimEndSeparators) ==
    LET tableRow == RowParse(Trim(text), TRUE)
    IN  [tableRow |-> tableRow,
         cells |-> CellsFrom(tableRow, trimEndSeparators, 1, << << >> >>)]

-----------------------------------------------------------------------------
(* The functions and their arguments *)

\* the characters the replacements of preprocess tell apart
SourceChars == {"\r", "\n", "\f", "\t", "a"}

\* the characters unescapeUrl tells apart, and strings that hold backslashes
\* which escape nothing
UrlChars == {"\\", "a", "0", " ", ")"}

\* the properties of states and templates: a property of the client, or none
\* to three of them, with the values the client gives them
ClientProps == {"a", "b"}
ClientValues == 1 .. MaxValue
ClientStates == UNION {[props -> ClientValues] : props \in SUBSET ClientProps}

\* outerParse(source, state) of a parser made with a template or without
\* one, and without a state or with one
OuterParseApplications ==
    [fn : {"outerParse"},
     arg : [state : {Null} \cup ClientStates, defaultState : {Null} \cup ClientStates]]

\* sources of one or more lines that end with newlines or without
ImplicitSources == SeqsUpTo({"a", "\n"}, MaxImplicit)

ImplicitParseApplications ==
    [fn : {"defaultImplicitParse"}, arg : ImplicitSources]

\* rows of a table: a row of TABLE_REGEX starts with "|" and is split with
\* trimEndSeparators, a row of NPTABLE_REGEX holds a "|" and is split without;
\* rows with "**" are left to the rule strong
RowChars == {"a", " ", "|", "*"}

Rows ==
    {text \in SeqsUpTo(RowChars, MaxRow) :
        /\ Contains(text, <<"|">>)
        /\ ~ Contains(text, <<"*", "*">>)}

ParseTableRowApplications ==
    [fn : {"parseTableRow"},
     arg : {[source |-> text, trimEndSeparators |-> trim] :
                text \in Rows, trim \in BOOLEAN}]

ArrayHtmlApplications ==
    [fn : {"Array.html"}, arg : SeqsUpTo(ArrayNodes, MaxArray)]

PreprocessApplications ==
    [fn : {"preprocess"}, arg : SeqsUpTo(SourceChars, MaxString)]

\* a url as it is written in a source: every character that is neither
\* alphanumeric nor whitespace is prefixed with a backslash
RECURSIVE BackslashEscaped(_)
BackslashEscaped(text) ==
    IF text = << >> THEN << >>
    ELSE (IF IsEscapable(Head(text)) THEN <<"\\">> ELSE << >>)
             \o <<Head(text)>> \o BackslashEscaped(Tail(text))

UrlStrings == SeqsUpTo(UrlChars, MaxString)

\* escaped urls, and strings whose backslashes escape nothing
UnescapeUrlApplications ==
    [fn : {"unescapeUrl"},
     arg : UrlStrings \cup {BackslashEscaped(text) : text \in UrlStrings}]

\* preprocess(source)
PreprocessCall ==
    /\ applied # Null /\ applied.fn = "preprocess"
    /\ outcome = Pending
    /\ outcome' = [str |-> preprocess(applied.arg)]
    /\ UNCHANGED applied
    /\ UNCHANGED othersOfFunctions

\* unescapeUrl(rawUrlString)
UnescapeUrlCall ==
    /\ applied # Null /\ applied.fn = "unescapeUrl"
    /\ outcome = Pending
    /\ outcome' = [str |-> unescapeUrl(applied.arg)]
    /\ UNCHANGED applied
    /\ UNCHANGED othersOfFunctions

\* outerParse(source, state) up to its call of nestedParse; the rules read
\* and write the recognized properties of the state only
OuterParseCall ==
    /\ applied # Null /\ applied.fn = "outerParse"
    /\ outcome = Pending
    /\ LET latestState == populateInitialState(applied.arg.state, applied.arg.defaultState)
       IN  outcome' = [state |-> WithPrevCapture(latestState, Null)]
    /\ UNCHANGED applied
    /\ UNCHANGED othersOfFunctions

\* defaultImplicitParse(source, state): the state defaultRawParse is called with
DefaultImplicitParseCall ==
    /\ applied # Null /\ applied.fn = "defaultImplicitParse"
    /\ outcome = Pending
    /\ LET isBlock == BlockEndTest(applied.arg)
       IN  outcome' = [inline |-> ~ isBlock]
    /\ UNCHANGED applied
    /\ UNCHANGED othersOfFunctions

\* parseTableRow(source, parse, state, trimEndSeparators)
ParseTableRowCall ==
    /\ applied # Null /\ applied.fn = "parseTableRow"
    /\ outcome = Pending
    /\ outcome' = parseTableRow(applied.arg.source, applied.arg.trimEndSeparators)
    /\ UNCHANGED applied
    /\ UNCHANGED othersOfFunctions

InitFunctions ==
    /\ \/ applied \in ArrayHtmlApplications
       \/ applied \in ParseTableRowApplications
       \/ applied \in OuterParseApplications
       \/ applied \in ImplicitParseApplications
       \/ applied \in PreprocessApplications
       \/ applied \in UnescapeUrlApplications
    /\ outcome = Pending

IdleFunctions ==
    /\ applied = Null
    /\ outcome = Pending

NextFunctions ==
    \/ ArrayHtmlCall \/ PreprocessCall \/ UnescapeUrlCall
    \/ OuterParseCall \/ DefaultImplicitParseCall \/ ParseTableRowCall

-----------------------------------------------------------------------------
(* The scope fields across nested parses.  Which rule the dispatcher of a   *)
(* nested parse chooses is left open; a rule is chosen only in a scope in   *)
(* which its match may return a capture.                                    *)

\* the values of a scope field: undefined until it is set, else a boolean
ScopeValues == {"undefined", "true", "false"}

Truthy(v) == v = "true"

\* (mutant) the value before the call is not kept
AlwaysFalse(v) == "false"

\* state.inline || false
OrFalse(v) == IF Truthy(v) THEN v ELSE "false"

Innermost == nesting[Len(nesting)]

\* a dispatcher is running: at the top level, or in the nested parse of a
\* parser other than parseTable, which calls parseTableRow itself
Dispatching == IF nesting = << >> THEN TRUE ELSE Innermost.fn # "parseTable"

CanNest == Len(nesting) < MaxDepth

\* a nested parser is entered with what it saved; the scope it was called
\* in is kept with it
Enter(fn, saved) == Append(nesting, [fn |-> fn, saved |-> saved, before |-> scope])

\* the innermost nested parser returns
Leave == SubSeq(nesting, 1, Len(nesting) - 1)

Left == [null |-> FALSE, fn |-> Innermost.fn, before |-> Innermost.before]

\* parseInline up to its call of parse; rules of both scopes call it
CallParseInline ==
    /\ scope # Null /\ CanNest /\ Dispatching
    /\ nesting' = Enter("parseInline", [isCurrentlyInline |-> OrFalse(scope.inline)])
    /\ scope' = [scope EXCEPT !.inline = "true"]
    /\ finished' = Null
    /\ UNCHANGED othersOfScope

\* parseInline after parse returned: state.inline = isCurrentlyInline
ReturnParseInline ==
    /\ scope # Null /\ nesting # << >> /\ Innermost.fn = "parseInline"
    /\ scope' = [scope EXCEPT !.inline = Innermost.saved.isCurrentlyInline]
    /\ nesting' = Leave
    /\ finished' = Left
    /\ UNCHANGED othersOfScope

\* parseBlock up to its call of parse
CallParseBlock ==
    /\ scope # Null /\ CanNest /\ Dispatching
    /\ nesting' = Enter("parseBlock", [isCurrentlyInline |-> OrFalse(scope.inline)])
    /\ scope' = [scope EXCEPT !.inline = "false"]
    /\ finished' = Null
    /\ UNCHANGED othersOfScope

\* parseBlock after parse returned
ReturnParseBlock ==
    /\ scope # Null /\ nesting # << >> /\ Innermost.fn = "parseBlock"
    /\ scope' = [scope EXCEPT !.inline = Innermost.saved.isCurrentlyInline]
    /\ nesting' = Leave
    /\ finished' = Left
    /\ UNCHANGED othersOfScope

\* list.parse, for one item, up to its call of parse; list.match returns a
\* capture only if state._list || !state.inline
CallListItem ==
    /\ scope # Null /\ CanNest /\ Dispatching
    /\ Truthy(scope._list) \/ ~ Truthy(scope.inline)
    /\ nesting' = Enter("list", [oldStateInline |-> scope.inline,
                                 oldStateList |-> scope._list])
    /\ \E thisItemIsAParagraph \in BOOLEAN :
          scope' = [scope EXCEPT !._list = "true",
                                 !.inline = IF thisItemIsAParagraph
                                            THEN "false" ELSE "true"]
    /\ finished' = Null
    /\ UNCHANGED othersOfScope

\* list.parse, for one item, after parse returned
ReturnListItem ==
    /\ scope # Null /\ nesting # << >> /\ Innermost.fn = "list"
    /\ scope' = [scope EXCEPT !.inline = Innermost.saved.oldStateInline,
                              !._list = Innermost.saved.oldStateList]
    /\ nesting' = Leave
    /\ finished' = Left
    /\ UNCHANGED othersOfScope

\* parseTable up to its first call of parseTableRow; the match of table and
\* of nptable is a blockRegex
CallParseTable ==
    /\ scope # Null /\ CanNest /\ Dispatching
    /\ ~ Truthy(scope.inline)
    /\ nesting' = Enter("parseTable", << >>)
    /\ scope' = [scope EXCEPT !.inline = "true"]
    /\ finished' = Null
    /\ UNCHANGED othersOfScope

\* parseTable after its rows were parsed: state.inline = false
ReturnParseTable ==
    /\ scope # Null /\ nesting # << >> /\ Innermost.fn = "parseTable"
    /\ scope' = [scope EXCEPT !.inline = "false"]
    /\ nesting' = Leave
    /\ finished' = Left
    /\ UNCHANGED othersOfScope

\* parseTableRow, called by parseTable, up to its call of parse
CallParseTableRow ==
    /\ scope # Null /\ CanNest
    /\ nesting # << >> /\ Innermost.fn = "parseTable"
    /\ nesting' = Enter("parseTableRow", [prevInTable |-> scope.inTable])
    /\ scope' = [scope EXCEPT !.inTable = "true"]
    /\ finished' = Null
    /\ UNCHANGED othersOfScope

\* parseTableRow after parse returned: state.inTable = prevInTable
ReturnParseTableRow ==
    /\ scope # Null /\ nesting # << >> /\ Innermost.fn = "parseTableRow"
    /\ scope' = [scope EXCEPT !.inTable = Innermost.saved.prevInTable]
    /\ nesting' = Leave
    /\ finished' = Left
    /\ UNCHANGED othersOfScope

\* a top-level parse is running in any state the caller may hand in
InitScope ==
    /\ scope \in [inline : ScopeValues, _list : ScopeValues, inTable : ScopeValues]
    /\ nesting = << >>
    /\ finished = Null

IdleScope ==
    /\ scope = Null
    /\ nesting = << >>
    /\ finished = Null

NextScope ==
    \/ CallParseInline \/ ReturnParseInline
    \/ CallParseBlock \/ ReturnParseBlock
    \/ CallListItem \/ ReturnListItem
    \/ CallParseTable \/ ReturnParseTable
    \/ CallParseTableRow \/ ReturnParseTableRow

-----------------------------------------------------------------------------
(* defaultRules.Array.vue and state.key *)

\* '' + i
RECURSIVE DecimalString(_)
DecimalString(n) ==
    IF n < 10 THEN <<Digits[n + 1]>>
    ELSE DecimalString(n \div 10) \o <<Digits[(n % 10) + 1]>>

\* (mutant) the loop's key counter, which is not advanced over joined text
\* nodes, is written to state.key
KeyOfCounter(i, key) == Str(DecimalString(key))

\* state.key = '' + i; i and key are the loop's variables
KeyOfIndex(i, key) == Str(DecimalString(i))

\* the last node of the run of text nodes that starts at arr[i], as the inner
\* for loop of Array.vue leaves i; arr is indexed from 1 here
RECURSIVE RunOfText(_, _)
RunOfText(arr, i) ==
    IF i + 1 <= Len(arr) /\ arr[i + 1].type = "text" THEN RunOfText(arr, i + 1) ELSE i

\* the arrays em nodes hold as content
EmContents ==
    {<<[type |-> "text"]>>,
     <<[type |-> "text"], [type |-> "text"], [type |-> "br"]>>,
     <<[type |-> "br"], [type |-> "text"]>>}

\* text and br have no content to output, em outputs its content
VueNodes ==
    {[type |-> "text", content |-> << >>], [type |-> "br", content |-> << >>]}
        \cup {[type |-> "em", content |-> c] : c \in EmContents}

\* em.vue, of a node of an array in an array, outputs an array as well
NestedEm ==
    [type |-> "em",
     content |-> <<[type |-> "text"], [type |-> "em", content |-> <<[type |-> "text"]>>]>>]

VueAsts == SeqsUpTo(VueNodes, MaxArray) \cup {<<[type |-> "text", content |-> << >>], NestedEm>>}

Rendering == rendering[Len(rendering)]

\* a call of Array.vue: var oldKey = state.key, i = 0, key = 0
VueFrame(arr) == [arr |-> arr, i |-> 0, key |-> 0, oldKey |-> stateKey]

\* outerOutput(ast, state) calls Array.vue for the array
ArrayVueCall ==
    /\ vueAst # Null /\ rendering = << >> /\ emitted = Null
    /\ rendering' = <<VueFrame(vueAst.arr)>>
    /\ UNCHANGED <<vueAst, stateKey, emitted>>
    /\ UNCHANGED othersOfKeys

\* one turn of the for loop of Array.vue: state.key is set, a run of text
\* nodes is joined, and output is called for the node; the vue of em calls
\* output for its content, an array
ArrayVueChild ==
    /\ vueAst # Null /\ rendering # << >>
    /\ Rendering.i < Len(Rendering.arr)
    /\ LET frame == Rendering
           node == frame.arr[frame.i + 1]
           last == IF node.type = "text" THEN RunOfText(frame.arr, frame.i + 1) - 1
                   ELSE frame.i
           newKey == KeyOfIndex(frame.i, frame.key)
           next == [frame EXCEPT !.i = last + 1, !.key = @ + 1]
           callers == Append(SubSeq(rendering, 1, Len(rendering) - 1), next)
       IN  /\ stateKey' = newKey
           /\ emitted' = [null |-> FALSE, step |-> "child", first |-> frame.i,
                          last |-> last, key |-> newKey, depth |-> Len(rendering)]
           /\ rendering' = IF node.type = "em"
                           THEN Append(callers, [arr |-> node.content, i |-> 0, key |-> 0,
                                                 oldKey |-> newKey])
                           ELSE callers
    /\ UNCHANGED vueAst
    /\ UNCHANGED othersOfKeys

\* the for loop of Array.vue is over: state.key = oldKey; return result
ArrayVueReturn ==
    /\ vueAst # Null /\ rendering # << >>
    /\ Rendering.i >= Len(Rendering.arr)
    /\ stateKey' = Rendering.oldKey
    /\ emitted' = [null |-> FALSE, step |-> "return", depth |-> Len(rendering),
                   before |-> stateKey]
    /\ rendering' = SubSeq(rendering, 1, Len(rendering) - 1)
    /\ UNCHANGED vueAst
    /\ UNCHANGED othersOfKeys

\* the output is called with an array and with a state whose key is not set
\* or is the key a caller set
InitKeys ==
    /\ vueAst \in [null : {FALSE}, arr : VueAsts, key : {Null, Str(<<"7">>)}]
    /\ stateKey = vueAst.key
    /\ rendering = << >>
    /\ emitted = Null

IdleKeys ==
    /\ vueAst = Null
    /\ stateKey = Null
    /\ rendering = << >>
    /\ emitted = Null

NextKeys == ArrayVueCall \/ ArrayVueChild \/ ArrayVueReturn

-----------------------------------------------------------------------------
(* Specifications *)

\* parserFor and the parse loop on tables of valid rules
Init == InitParser(DispatchTables) /\ IdleSanitize /\ IdleOutput /\ InitRefs /\ IdleDefault
    /\ IdleFunctions /\ IdleScope /\ IdleKeys

Next == ParserFor \/ OuterParse \/ Dispatch \/ Consume \/ Return

Spec == Init /\ [][Next]_vars

\* parserFor alone, on every table it accepts
InitSort == InitParser(SortTables) /\ IdleSanitize /\ IdleOutput /\ InitRefs /\ IdleDefault
    /\ IdleFunctions /\ IdleScope /\ IdleKeys

NextSort == ParserFor

SpecSort == InitSort /\ [][NextSort]_vars

\* the parse loop on rules whose parse and match differ
InitNodes == InitParser(NodeTables) /\ IdleSanitize /\ IdleOutput /\ InitRefs /\ IdleDefault
    /\ IdleFunctions /\ IdleScope /\ IdleKeys

SpecNodes == InitNodes /\ [][Next]_vars

\* the parse loop on the emphasis rules of the default table
InitEmphasis == InitParser(EmphasisTables) /\ IdleSanitize /\ IdleOutput /\ InitRefs /\ IdleDefault
    /\ IdleFunctions /\ IdleScope /\ IdleKeys

SpecEmphasis == InitEmphasis /\ [][Next]_vars

\* the sanitizers and the html of a link, on bounded arguments
InitHtml == IdleParser /\ InitSanitize /\ IdleOutput /\ InitRefs /\ IdleDefault
    /\ IdleFunctions /\ IdleScope /\ IdleKeys

SpecSanitize == InitHtml /\ [][NextSanitize]_vars

\* outputFor and its renderer, on rule tables with and without an Array rule
InitRender == IdleParser /\ IdleSanitize /\ InitOutput /\ InitRefs /\ IdleDefault
    /\ IdleFunctions /\ IdleScope /\ IdleKeys

SpecOutput == InitRender /\ [][NextOutput]_vars

\* the references and definitions of a document, in every interleaving
InitDocument == IdleParser /\ IdleSanitize /\ IdleOutput /\ InitRefs /\ IdleDefault
    /\ IdleFunctions /\ IdleScope /\ IdleKeys

SpecRefs == InitDocument /\ [][NextRefs]_vars

\* the parse of bounded documents with the default rules
InitDefault ==
    InitParser(DefaultTables) /\ IdleSanitize /\ IdleOutput /\ InitRefs /\ IdleDefault
    /\ IdleFunctions /\ IdleScope /\ IdleKeys

SpecDefault == InitDefault /\ [][NextDefault]_vars

\* functions of the module, each applied to bounded arguments
InitApplied ==
    IdleParser /\ IdleSanitize /\ IdleOutput /\ InitRefs /\ IdleDefault /\ InitFunctions
    /\ IdleScope /\ IdleKeys

SpecFunctions == InitApplied /\ [][NextFunctions]_vars

\* nested parsers called from any starting state
InitNested ==
    IdleParser /\ IdleSanitize /\ IdleOutput /\ InitRefs /\ IdleDefault /\ IdleFunctions
    /\ InitScope /\ IdleKeys

SpecScope == InitNested /\ [][NextScope]_vars

\* the tree output of bounded arrays
InitVue ==
    IdleParser /\ IdleSanitize /\ IdleOutput /\ InitRefs /\ IdleDefault /\ IdleFunctions
    /\ IdleScope /\ InitKeys

SpecKeys == InitVue /\ [][NextKeys]_vars

-----------------------------------------------------------------------------
(* Claims about the dispatcher *)

Matching == {t \in Range(ruleList) : iter.caps[t].hit}

Probed == {ruleList[i] : i \in 1 .. iter.probed}

\* the matching rules of the chosen rule's order that have a quality function
Rivals ==
    {t \in Matching : /\ rules[t].order = rules[iter.ruleType].order
                      /\ rules[t].quality # "none"}

QualityIn(t) == QualityOf(t, iter.caps[t])

\* C1: the rule whose parse is invoked matched the source and has the lowest
\* order of all rules that match; among the matching rules of that order that
\* have a quality function the one of greatest quality is chosen, the earliest
\* in ruleList on equal quality; no rule of a higher order is probed.
C1_LowestOrderBestQuality ==
    pc = "parse" =>
        /\ iter.ruleType \in Matching
        /\ \A t \in Matching : rules[iter.ruleType].order <= rules[t].order
        /\ Rivals # {} =>
              /\ iter.ruleType \in Rivals
              /\ \A t \in Rivals :
                    \/ QualityIn(t) < QualityIn(iter.ruleType)
                    \/ /\ QualityIn(t) = QualityIn(iter.ruleType)
                       /\ IndexIn(ruleList, iter.ruleType) <= IndexIn(ruleList, t)
        /\ \A t \in Probed : rules[t].order <= rules[iter.ruleType].order

\* a choice between two rivals of equal quality, a matching rule of a higher
\* order left unprobed
C1_Witness ==
    /\ pc = "parse"
    /\ \E t \in Rivals : t # iter.ruleType /\ QualityIn(t) = QualityIn(iter.ruleType)
    /\ \E t \in Matching \ Probed : rules[t].order > rules[iter.ruleType].order

\* C2: parserFor keeps exactly the entries that have a match and leaves the
\* same list whatever the key order of the table.
C2_SameListForAnyKeyOrder ==
    pc = "ready" =>
        /\ Range(ruleList) = {t \in DOMAIN rules : rules[t].match}
        /\ \A p \in Perms(DOMAIN rules) : SortResults(FilterKeys(p)) = {ruleList}

\* C3: every node of a returned node list has a type.
C3_EveryNodeTyped ==
    pc = "done" => \A i \in 1 .. Len(result) : result[i].type # ""

Emphasis == {"em", "strong", "u"}

\* em beats strong, strong beats u
EmphasisRank(t) == CASE t = "em" -> 3 [] t = "strong" -> 2 [] OTHER -> 1

\* C6: when no rule of a lower order matches, the dispatcher chooses among the
\* matching em, strong and u the one with the longest capture[0]; on equal
\* length em beats strong and strong beats u.
C6_LongestEmphasisWins ==
    pc = "parse" /\ Matching \cap Emphasis # {} /\ ~ iter.caps["link"].hit =>
        /\ iter.ruleType \in Emphasis
        /\ \A t \in Matching \cap Emphasis :
              \/ iter.caps[t].len < iter.caps[iter.ruleType].len
              \/ /\ iter.caps[t].len = iter.caps[iter.ruleType].len
                 /\ EmphasisRank(t) <= EmphasisRank(iter.ruleType)

\* u is chosen over a shorter em; strong is chosen over u of equal length
C6_Witness ==
    /\ pc = "parse"
    /\ \/ /\ iter.ruleType = "u"
          /\ iter.caps["em"].hit
       \/ /\ iter.ruleType = "strong"
          /\ iter.caps["u"].hit
          /\ iter.caps["u"].len = iter.caps["strong"].len

\* C14 as it is stated: whenever the parse aborts in an iteration in which no
\* rule matched the remaining source, it aborts with the no-matching-rule
\* error, for every rule table.
C14_NoMatchIsGrammarExhaustion ==
    (pc = "error" /\ ~ (iter # Null /\ iter.found)) => error = "no matching rule"

\* C15: a chosen capture that starts past offset 0 makes the parse fail with
\* the unanchored-match error and leaves the result as it was, and the parse
\* of a rule is only called with a capture that starts at offset 0.
C15_UnanchoredCaptureNeverParsed ==
    [][/\ (iter' # Null /\ iter'.found /\ iter'.index # 0) =>
              (pc' = "error" /\ error' = "unanchored match" /\ result' = result)
       /\ (pc = "parse" /\ pc' = "loop") => iter.index = 0]_vars

\* after a node was parsed, the chosen capture of the next iteration started
\* past offset 0
C15_Witness ==
    /\ pc = "error" /\ error = "unanchored match"
    /\ iter # Null /\ iter.found /\ iter.index = 1
    /\ Len(result) > 0

\* C16 as it is stated: every iteration of the parse loop makes the remaining
\* source strictly shorter.
C16_EveryIterationShortensSource ==
    [][(pc = "parse" /\ pc' = "loop") => source' < source]_vars

-----------------------------------------------------------------------------
(* Claims about the parse of a document *)

\* C4: in every loop iteration, at every nesting depth, the chosen capture[0]
\* is a prefix of the remaining source, so that what is removed from the
\* source is the text the rule matched; this includes the iterations in which
\* list matched with the indentation of the previous capture put first.
C4_CaptureIsPrefixOfSource ==
    chosen # Null => StartsWith(chosen.source, chosen.capture.str)

-----------------------------------------------------------------------------
(* Claims about references and definitions *)

RefEvents == {i \in 1 .. Len(events) : events[i].rule = "ref"}

\* the definition of key that is in force: the last one parsed
LastDefs(key) ==
    {j \in 1 .. Len(events) :
        /\ events[j].rule = "def"
        /\ events[j].key = key
        /\ \A k \in j + 1 .. Len(events) :
              ~ (events[k].rule = "def" /\ events[k].key = key)}

\* C5: whatever the order of references and definitions, every ref node whose
\* canonicalized key has a definition carries the target and the title of that
\* definition, whether the definition came before the reference or after it.
C5_RefNodesCarryTheirDefinition ==
    \A i \in RefEvents : \A j \in LastDefs(events[i].key) :
        /\ nodes[events[i].node].target = events[j].target
        /\ nodes[events[i].node].title = events[j].title

\* a reference before its definition and a reference after it, both resolved
C5_Witness ==
    \E i, k \in RefEvents : \E j \in LastDefs(events[i].key) :
        /\ i < j /\ j < k
        /\ events[k].key = events[i].key
        /\ nodes[events[i].node].target = events[j].target
        /\ nodes[events[k].node].target = events[j].target

-----------------------------------------------------------------------------
(* Claims about the sanitizers *)

Returned(fn) == call # Null /\ call.fn = fn /\ returned # Pending

\* the seven characters the table of entities lists
EscapedChars == {"<", ">", "&", "\"", "'", "/", Backtick}

\* C7: sanitizeText replaces each of the seven characters < > & " ' / and the
\* grave accent by its entity and leaves every other character as it is.
C7_SevenCharactersEscaped ==
    Returned("sanitizeText") =>
        returned.str = Join([i \in 1 .. Len(call.arg) |->
                                IF call.arg[i] \in EscapedChars
                                THEN SANITIZE_TEXT_CODES(call.arg[i])
                                ELSE <<call.arg[i]>>])

\* the decoded url, stripped to [A-Za-z0-9/:] and lowercased, begins with one
\* of the three schemes
HasScriptScheme(str) ==
    LET stripped == ToLowerCase(StripToProtocolChars(decodeURIComponent(str).str))
    IN  \E scheme \in {JavascriptScheme, VbscriptScheme, DataScheme} :
            StartsWith(stripped, scheme)

Rejects(url) ==
    \/ IsNullish(url)
    \/ ~ decodeURIComponent(url.str).ok
    \/ HasScriptScheme(url.str)

\* C8: sanitizeUrl returns null for a null url, for a url whose decoding fails
\* and for a url whose decoded, stripped, lowercased form begins with
\* javascript:, vbscript: or data:; every other url is returned as it is.
C8_NullOrTheSameUrl ==
    Returned("sanitizeUrl") =>
        returned = IF Rejects(call.arg) THEN Null ELSE call.arg

\* a url rejected for its scheme that shows the scheme only once it is
\* decoded and lowercased
C8_Witness ==
    /\ Returned("sanitizeUrl")
    /\ returned = Null
    /\ ~ IsNullish(call.arg)
    /\ decodeURIComponent(call.arg.str).ok
    /\ \A scheme \in {JavascriptScheme, VbscriptScheme, DataScheme} :
          /\ ~ StartsWith(StripToProtocolChars(call.arg.str), scheme)
          /\ ~ StartsWith(ToLowerCase(call.arg.str), scheme)

\* a link node whose target sanitizeUrl rejects or whose target is undefined
RejectedTarget == Returned("link.html") /\ Rejects(call.arg.target)

HrefName == <<"h", "r", "e", "f">>

EmptyHref == <<" ">> \o HrefName \o <<"=", "\"", "\"">>

AnchorEnd == <<"<", "/", "a", ">">>

\* C9: the html of a link whose target is rejected or undefined is an anchor
\* without any href attribute.
C9_AnchorWithoutHref ==
    RejectedTarget =>
        /\ StartsWith(returned.str, <<"<", "a">>)
        /\ SubSeq(returned.str, Len(returned.str) - 3, Len(returned.str)) = AnchorEnd
        /\ ~ Contains(returned.str, HrefName)

\* a link to a javascript: url, and its html
C9_Witness ==
    /\ RejectedTarget
    /\ ~ IsNullish(call.arg.target)
    /\ StartsWith(call.arg.target.str, JavascriptScheme)

\* C9 as it is stated: the html of such a link is an anchor that carries
\* href="".
C9_AnchorWithEmptyHref ==
    RejectedTarget =>
        /\ StartsWith(returned.str, <<"<", "a">>)
        /\ Contains(returned.str, EmptyHref)

-----------------------------------------------------------------------------
(* Claims about outputFor *)

\* the table whose Array rule outputFor takes: the rule table's when it has
\* one, that of defaultRules otherwise
JoinerTable == IF outputRules.Array.present THEN "rules" ELSE "defaultRules"

JoinerProperties ==
    IF outputRules.Array.present THEN outputRules.Array.properties ELSE {"vue", "html"}

\* the renderer sent the array to the joiner and each node to the rule of its
\* type
SentToTheirRules ==
    rendered.output.calls =
        (IF ast.isArray THEN <<OutputFunction(JoinerTable, "Array", property)>> ELSE << >>)
        \o [i \in 1 .. Len(ast.nodes) |->
                OutputFunction("rules", ast.nodes[i].type, property)]

\* C10: outputFor fails with the missing-Array-joiner error exactly when the
\* property is given and the Array rule it takes (the table's when the table
\* has one, the default one otherwise) has no output for the property;
\* otherwise the renderer sends arrays to that Array rule and each other node
\* to rules[node.type][property].
C10_JoinerOfTheTableOrElseDefault ==
    outputPc # "new" =>
        /\ outputError = "missing Array joiner"
              <=> (property # "" /\ property \notin JoinerProperties)
        /\ outputPc = "built" <=> property \in JoinerProperties
        /\ rendered # Null /\ ~ rendered.output.threw => SentToTheirRules

\* the error is thrown for a table whose Array rule lacks a property that the
\* default Array rule has
C10_Witness ==
    /\ outputError = "missing Array joiner"
    /\ outputRules.Array.present
    /\ property \in DefaultArrayRule.properties

\* C10 as it is stated: the error is thrown only when neither the table's
\* Array rule nor the default Array rule has an output for the property.
C10_ErrorOnlyWhenNoArrayRuleProvides ==
    outputError = "missing Array joiner" =>
        /\ property \notin outputRules.Array.properties
        /\ property \notin DefaultArrayRule.properties

-----------------------------------------------------------------------------
(* Claims about the functions *)

Applied(fn) == applied # Null /\ applied.fn = fn /\ outcome # Pending

\* the array in which every maximal run of consecutive text nodes is replaced
\* by one text node with the concatenated content
RECURSIVE Folded(_)
Folded(ns) ==
    IF Len(ns) < 2 THEN ns
    ELSE IF ns[1].type = "text" /\ ns[2].type = "text"
    THEN Folded(<<[type |-> "text", content |-> ns[1].content \o ns[2].content]>>
                    \o SubSeq(ns, 3, Len(ns)))
    ELSE <<ns[1]>> \o Folded(Tail(ns))

\* C11: the html of an array is the html of the array whose runs of text nodes
\* were folded beforehand, and Array.html leaves the array and the content of
\* its nodes as they were.
C11_FoldingIsIdempotent ==
    Applied("Array.html") =>
        /\ outcome.html = ArrayHtml(ArrayOf(Folded(applied.arg)), Folded(applied.arg)).html
        /\ SubSeq(outcome.heap, 1, Len(applied.arg)) = applied.arg

\* an array with a run of text nodes, the second of them not empty, was
\* rendered
C11_Witness ==
    /\ Applied("Array.html")
    /\ \E i \in 1 .. Len(applied.arg) - 1 :
          /\ applied.arg[i].type = "text"
          /\ applied.arg[i + 1].type = "text"
          /\ applied.arg[i + 1].content # << >>

\* C12: preprocess is idempotent, and its result holds no carriage return, no
\* form feed and no tab.
C12_PreprocessIsIdempotent ==
    Applied("preprocess") =>
        /\ preprocess(outcome.str) = outcome.str
        /\ \A i \in 1 .. Len(outcome.str) : outcome.str[i] \notin {"\r", "\f", "\t"}

\* a source with a carriage return before a newline and with a tab or a form
\* feed was preprocessed
C12_Witness ==
    /\ Applied("preprocess")
    /\ \E i \in 1 .. Len(applied.arg) - 1 :
          applied.arg[i] = "\r" /\ applied.arg[i + 1] = "\n"
    /\ \E i \in 1 .. Len(applied.arg) : applied.arg[i] \in {"\f", "\t"}
    /\ outcome.str # applied.arg

\* C13: unescapeUrl gives back the string whose characters that are neither
\* alphanumeric nor whitespace, the backslash included, were prefixed with a
\* backslash.
C13_UnescapeUrlInvertsEscaping ==
    Applied("unescapeUrl") =>
        \A text \in UrlStrings :
            applied.arg = BackslashEscaped(text) => outcome.str = text

\* an escaped url that held a backslash and another escaped character was
\* unescaped
C13_Witness ==
    /\ Applied("unescapeUrl")
    /\ \E text \in UrlStrings :
          /\ applied.arg = BackslashEscaped(text)
          /\ \E i, j \in 1 .. Len(text) : text[i] = "\\" /\ text[j] = ")"
          /\ outcome.str = text

\* C17 as it is stated: every property of the state the caller gave, the
\* recognized ones aside, has the value the caller gave it, with a template
\* and without one.
C17_ClientFieldsPassThrough ==
    (Applied("outerParse") /\ applied.arg.state # Null) =>
        \A prop \in DOMAIN applied.arg.state \cap ClientProps :
            outcome.state[prop] = applied.arg.state[prop]

\* C18: defaultImplicitParse sets state.inline to false exactly for the
\* sources that end with two or more newlines, of one line or of several.
C18_InlineUnlessEndsWithBlankLine ==
    Applied("defaultImplicitParse") =>
        LET n == Len(applied.arg)
        IN  outcome.inline =
                ~ (n >= 2 /\ applied.arg[n] = "\n" /\ applied.arg[n - 1] = "\n")

\* a source of two lines that ends with two newlines was parsed
C18_Witness ==
    /\ Applied("defaultImplicitParse")
    /\ applied.arg = <<"\n", "a", "\n", "\n">>
    /\ outcome.inline = FALSE

\* C18 as it is stated: state.inline is the negation of the test of
\* ^.*\n{2,}$ on the source.
C18_InlineUnlessOneLineBlock ==
    Applied("defaultImplicitParse") => outcome.inline = ~ OneLineBlockEnd(applied.arg)

-----------------------------------------------------------------------------
(* Claims about the scope fields *)

\* C19: when a nested parser returns, state._list and state.inTable hold the
\* values they held immediately before the call, and state.inline holds the
\* value it held if the value was true or the parser is the list rule's
\* parse or parseTableRow, and false otherwise.
C19_ScopeRestoredUpToTruthiness ==
    finished # Null =>
        /\ scope._list = finished.before._list
        /\ scope.inTable = finished.before.inTable
        /\ scope.inline =
              IF finished.before.inline = "true" \/ finished.fn \in {"list", "parseTableRow"}
              THEN finished.before.inline
              ELSE "false"

\* parseInline, called at the top level with state.inline undefined and
\* state._list and state.inTable set, returned
C19_Witness ==
    /\ finished # Null
    /\ finished.fn = "parseInline"
    /\ nesting = << >>
    /\ finished.before = [inline |-> "undefined", _list |-> "false", inTable |-> "true"]
    /\ scope = [inline |-> "false", _list |-> "false", inTable |-> "true"]

\* C19 as it is stated: when a nested parser returns, the three scope fields
\* hold the values they held immediately before the call.
C19_ScopeRestoredExactly ==
    finished # Null => scope = finished.before

-----------------------------------------------------------------------------
(* Claims about state.prevCapture *)

\* C20: state.prevCapture is null when the first iteration of a top-level
\* parse starts, whatever the given state held, and when an iteration
\* finishes, at any depth, it is the capture that iteration chose: for a rule
\* without nested parse the capture the dispatcher just chose, and after a
\* nested parse returned the capture of the rule that called it.
C20_PrevCaptureIsCaptureOfIteration ==
    [][/\ (stack = << >> /\ stack' # << >>) => state'.prevCapture = Null
       /\ (stack # << >> /\ chosen # Null /\ chosen' = Null
              /\ Len(stack') = Len(stack) /\ thrown' = "") =>
              state'.prevCapture = Str(chosen.capture.str)
       /\ (Len(stack) >= 2 /\ Len(stack') = Len(stack) - 1) =>
              state'.prevCapture = Str(stack[Len(stack)].caller.capture.str)]_vars

\* in a parse that was given a state with a capture of an earlier parse, the
\* iteration of a paragraph inside a list item finished after the nested
\* parse of the paragraph had stored captures of its own
C20_Witness ==
    /\ input # Null /\ input.state.prevCapture # Null
    /\ Len(stack) = 2 /\ chosen = Null /\ thrown = ""
    /\ Top.caller.rule = "list"
    /\ Top.result # << >>
    /\ Top.result[Len(Top.result)].type = "paragraph"
    /\ Top.result[Len(Top.result)].content # << >>
    /\ state.prevCapture # Null
    /\ Len(state.prevCapture.str) > Len(Top.result[Len(Top.result)].content[1].content)
    /\ Top.source # << >>

-----------------------------------------------------------------------------
(* Claims about state.key *)

-----------------------------------------------------------------------------
(* Claims about the items of a list *)

\* the nested parse of a list item was entered and has not yet chosen a rule
ItemEntered ==
    /\ stack # << >> /\ thrown = "" /\ chosen = Null
    /\ Top.caller.rule = "list"
    /\ Top.result = << >>

\* item i contains a double newline, or is the last item and follows an item
\* in paragraph mode
RECURSIVE InParagraphMode(_, _)
InParagraphMode(items, i) ==
    \/ Contains(ItemContent(items[i]), <<"\n", "\n">>)
    \/ (i = Len(items) /\ i > 1 /\ InParagraphMode(items, i - 1))

EndsWithBlankLine(text) ==
    Len(text) >= 2 /\ text[Len(text)] = "\n" /\ text[Len(text) - 1] = "\n"

\* C22 as it is stated: an item is parsed with state.inline false and with a
\* content that ends with a blank line if and only if it is in paragraph mode,
\* every other item with state.inline true, and state._list is true while an
\* item is parsed.
C22_ParagraphModeOfItems ==
    /\ ItemEntered =>
          /\ state.inline = ~ InParagraphMode(Top.caller.items, Top.caller.i)
          /\ ~ state.inline => EndsWithBlankLine(Top.source)
    /\ (\E d \in 1 .. Len(stack) : stack[d].caller.rule = "list") => state._list = TRUE

-----------------------------------------------------------------------------
(* Claims about the rows of a table *)

\* a node of type tableSeparator is among the nodes or in the content of one
RECURSIVE HasSeparator(_)
HasSeparator(ns) ==
    \E i \in 1 .. Len(ns) :
        \/ ns[i].type = "tableSeparator"
        \/ ns[i].type = "em" /\ HasSeparator(ns[i].content)

\* C23 as it is stated: every tableSeparator node is consumed by the cell
\* splitting of its row, so none remains in the cells of the row, the
\* content of the emphasis of a cell included.
C23_NoSeparatorInCells ==
    Applied("parseTableRow") =>
        \A c \in 1 .. Len(outcome.cells) : ~ HasSeparator(outcome.cells[c])

\* the separators of the row that open a cell: all of them, or with
\* trimEndSeparators all but one at the first and one at the last position
OpeningSeparators ==
    LET row == outcome.tableRow
        all == {i \in 1 .. Len(row) : row[i].type = "tableSeparator"}
    IN  IF applied.arg.trimEndSeparators THEN all \ {1, Len(row)} ELSE all

\* node is the node kept of the node original of the row: the same node, or
\* the text node without the spaces at its end
KeptAs(node, original) ==
    \/ node = original
    \/ /\ node.type = "text" /\ original.type = "text"
       /\ \E n \in 0 .. Len(original.content) :
             /\ node.content = SubSeq(original.content, 1, Len(original.content) - n)
             /\ \A k \in Len(node.content) + 1 .. Len(original.content) :
                   original.content[k] = " "

\* C24: the cells are one more than the separators that open a cell, and
\* every other node of the row is kept, in the order of the row, in the cell
\* that the separators before it have opened.
C24_CellsSplitAtSeparators ==
    Applied("parseTableRow") =>
        LET row == outcome.tableRow
            cells == outcome.cells
            kept(c) == {i \in 1 .. Len(row) :
                          /\ row[i].type # "tableSeparator"
                          /\ Cardinality({j \in OpeningSeparators : j < i}) = c - 1}
        IN  /\ Len(cells) = 1 + Cardinality(OpeningSeparators)
            /\ \A c \in 1 .. Len(cells) :
                  /\ Len(cells[c]) = Cardinality(kept(c))
                  /\ \A n \in 1 .. Len(cells[c]) :
                        \E i \in kept(c) :
                            /\ Cardinality({j \in kept(c) : j < i}) = n - 1
                            /\ KeptAs(cells[c][n], row[i])

\* a row with a separator at its first and at its last position and one in
\* between was split with trimEndSeparators into two cells, one of them with
\* a text that lost the space at its end
C24_Witness ==
    /\ Applied("parseTableRow")
    /\ applied.arg.trimEndSeparators
    /\ applied.arg.source = <<"|", "a", " ", "|", "|">>
    /\ Len(outcome.tableRow) = 4
    /\ outcome.cells = <<<<[type |-> "text", content |-> <<"a">>]>>, << >> >>

=============================================================================